---------------------------- MODULE Spec2Model ----------------------------
(***************************************************************************)
(* Poseidon2 over the Goldilocks field (plonky2/src/hash/poseidon2.rs,     *)
(* poseidon2_goldilocks.rs) and its dedicated MDS gate                     *)
(* (plonky2/src/gates/poseidon2_mds.rs).                                   *)
(*                                                                         *)
(* Machine integers are little-endian byte strings: a u64 is a tuple of 8  *)
(* bytes, a u128 a tuple of 16, so that 64- and 128-bit values keep their  *)
(* width.  A field element is the u64 a GoldilocksField holds, which need  *)
(* not be the canonical representative.                                    *)
(***************************************************************************)
EXTENDS Integers, Sequences, FiniteSets, TLC

VARIABLES
  input,      \* poseidon: the argument `input`
  state,      \* poseidon: the local `state`
  round_ctr,  \* poseidon: the local `round_ctr`
  pc,         \* poseidon: the statement the call is at
  loop_i,     \* full_rounds / partial_rounds: the loop variable
  steps,      \* poseidon: the layers applied so far, in order
  cfg_D,              \* the extension degree D the generics are given
  lay_state,          \* layers: the base-field state the layers are given
  lay_mds,            \* layers: what mds_layer returned
  lay_mds_field,      \* layers: what mds_layer_field returned
  lay_partial,        \* layers: what mds_partial_layer_fast returned
  lay_partial_field,  \* layers: what mds_partial_layer_fast_field returned
  local_wires,   \* gate: vars.local_wires, the row under evaluation
  other_wires,   \* gate: the local_wires of a second evaluation
  res_ext,       \* gate: what eval_unfiltered returned
  res_lin,       \* gate: what eval_unfiltered returned for a combined row
  res_base,      \* what eval_unfiltered_base_one gave to yield_constr
  builder,       \* the CircuitBuilder
  out_targets,   \* the targets a circuit method returned
  out_values,    \* the values witness generation gave to out_targets
  circuit_state, \* mds_layer_circuit: the values of the targets of `state`
  witness_rows,  \* the wire values of the rows of the builder's gates
  partition_witness,    \* scheduler: the wire values assigned so far, by row
  out_buffers,          \* scheduler: each generator's values not yet merged
  generator_is_expired, \* scheduler: the generators that have finished
  run_count,            \* scheduler: how often run_once of each row has run
  generator_panicked    \* scheduler: a generator read an unassigned wire or
                        \* wrote a second value to an assigned one

permVars == <<input, state, round_ctr, pc, loop_i, steps>>

layVars ==
  <<lay_state, lay_mds, lay_mds_field, lay_partial, lay_partial_field>>

gateVars == <<local_wires, other_wires, res_ext, res_lin>>

evalVars == <<res_base, builder, out_targets, out_values>>

circuitVars == <<circuit_state, witness_rows>>

schedVars ==
  <<partition_witness, out_buffers, generator_is_expired, run_count,
    generator_panicked>>

vars ==
  <<permVars, cfg_D, layVars, gateVars, evalVars, circuitVars, schedVars>>

\* poseidon is not running.
PermIdle ==
  /\ input = <<>>
  /\ state = <<>>
  /\ round_ctr = 0
  /\ pc = "idle"
  /\ loop_i = 0
  /\ steps = <<>>

\* No layer is applied on its own.
LayIdle ==
  /\ lay_state = <<>>
  /\ lay_mds = <<>>
  /\ lay_mds_field = <<>>
  /\ lay_partial = <<>>
  /\ lay_partial_field = <<>>

\* No row is under evaluation.
GateIdle ==
  /\ local_wires = <<>>
  /\ other_wires = <<>>
  /\ res_ext = <<>>
  /\ res_lin = <<>>

\* No circuit is being built.
EvalIdle ==
  /\ res_base = <<>>
  /\ builder = <<>>
  /\ out_targets = <<>>
  /\ out_values = <<>>

CircuitIdle ==
  /\ circuit_state = <<>>
  /\ witness_rows = <<>>

\* No witness is being generated.
SchedIdle ==
  /\ partition_witness = <<>>
  /\ out_buffers = <<>>
  /\ generator_is_expired = <<>>
  /\ run_count = <<>>
  /\ generator_panicked = FALSE

---------------------------------------------------------------------------
(* Program constants.                                                      *)

HALF_N_FULL_ROUNDS == 4

N_FULL_ROUNDS_TOTAL == 2 * HALF_N_FULL_ROUNDS

N_PARTIAL_ROUNDS == 22

N_ROUNDS == N_FULL_ROUNDS_TOTAL + N_PARTIAL_ROUNDS

MAX_WIDTH == 12

SPONGE_WIDTH == 12

WIDTH == SPONGE_WIDTH

---------------------------------------------------------------------------
(* Machine integers.                                                       *)

\* The element of a one-element set.
Only(S) == CHOOSE x \in S : TRUE

\* `let x = v; F(x)`: v is evaluated once, whatever the number of uses of x.
Let1(v, F(_)) == Only({F(x) : x \in {v}})

\* `let (x, y) = (v, w); F(x, y)`.
Let2(v, w, F(_, _)) == Only({F(x, y) : x \in {v}, y \in {w}})

\* The u64 written 0x<h3><h2><h1><h0>, each piece four hex digits.
H(h3, h2, h1, h0) ==
  <<h0 % 256, h0 \div 256, h1 % 256, h1 \div 256,
    h2 % 256, h2 \div 256, h3 % 256, h3 \div 256>>

\* A small number (below 2^31) as a u64.
U64(n) ==
  <<n % 256, (n \div 256) % 256, (n \div 65536) % 256, n \div 16777216,
    0, 0, 0, 0>>

\* Carry propagation of 9 columns into 9 bytes (the carry out is dropped).
Carry9(cols) ==
  Let1(cols, LAMBDA c :
    LET v1 == c[1]
        v2 == c[2] + (v1 \div 256)
        v3 == c[3] + (v2 \div 256)
        v4 == c[4] + (v3 \div 256)
        v5 == c[5] + (v4 \div 256)
        v6 == c[6] + (v5 \div 256)
        v7 == c[7] + (v6 \div 256)
        v8 == c[8] + (v7 \div 256)
        v9 == c[9] + (v8 \div 256)
    IN  <<v1 % 256, v2 % 256, v3 % 256, v4 % 256, v5 % 256,
          v6 % 256, v7 % 256, v8 % 256, v9 % 256>>)

\* Carry propagation of 16 columns into 16 bytes: the value modulo 2^128.
Carry16(cols) ==
  Let1(cols, LAMBDA c :
    LET v1 == c[1]
        v2 == c[2] + (v1 \div 256)
        v3 == c[3] + (v2 \div 256)
        v4 == c[4] + (v3 \div 256)
        v5 == c[5] + (v4 \div 256)
        v6 == c[6] + (v5 \div 256)
        v7 == c[7] + (v6 \div 256)
        v8 == c[8] + (v7 \div 256)
        v9 == c[9] + (v8 \div 256)
        v10 == c[10] + (v9 \div 256)
        v11 == c[11] + (v10 \div 256)
        v12 == c[12] + (v11 \div 256)
        v13 == c[13] + (v12 \div 256)
        v14 == c[14] + (v13 \div 256)
        v15 == c[15] + (v14 \div 256)
        v16 == c[16] + (v15 \div 256)
    IN  <<v1 % 256, v2 % 256, v3 % 256, v4 % 256, v5 % 256, v6 % 256,
          v7 % 256, v8 % 256, v9 % 256, v10 % 256, v11 % 256, v12 % 256,
          v13 % 256, v14 % 256, v15 % 256, v16 % 256>>)

\* `x as i64 as u128` of a u64: the sign bit fills the upper half.
as_u128_SignExtended(x) ==
  IF x[8] >= 128 THEN x \o <<255, 255, 255, 255, 255, 255, 255, 255>>
  ELSE x \o <<0, 0, 0, 0, 0, 0, 0, 0>>

\* `x as u128` of a u64.
as_u128(x) == x \o <<0, 0, 0, 0, 0, 0, 0, 0>>

\* `x as u64` of a u128.
as_u64(x) == SubSeq(x, 1, 8)

\* `(x >> 64) as u32` of a u128.
shr64_as_u32(x) == SubSeq(x, 9, 12)

\* u128 addition (wrapping at 2^128).
U128Add(x, y) ==
  Let2(x, y, LAMBDA a, b :
    Carry16(<<a[1] + b[1], a[2] + b[2], a[3] + b[3], a[4] + b[4],
              a[5] + b[5], a[6] + b[6], a[7] + b[7], a[8] + b[8],
              a[9] + b[9], a[10] + b[10], a[11] + b[11], a[12] + b[12],
              a[13] + b[13], a[14] + b[14], a[15] + b[15], a[16] + b[16]>>))

\* `c * x` in u128 for a literal c (wrapping at 2^128).
U128MulSmall(c, x) ==
  Let1(x, LAMBDA a :
    Carry16(<<c * a[1], c * a[2], c * a[3], c * a[4], c * a[5], c * a[6],
              c * a[7], c * a[8], c * a[9], c * a[10], c * a[11], c * a[12],
              c * a[13], c * a[14], c * a[15], c * a[16]>>))

\* The full 128-bit product of two u64.
U64MulWide(x, y) ==
  Let2(x, y, LAMBDA a, b :
    Carry16(<<a[1] * b[1],
              a[1] * b[2] + a[2] * b[1],
              a[1] * b[3] + a[2] * b[2] + a[3] * b[1],
              a[1] * b[4] + a[2] * b[3] + a[3] * b[2] + a[4] * b[1],
              a[1] * b[5] + a[2] * b[4] + a[3] * b[3] + a[4] * b[2]
                + a[5] * b[1],
              a[1] * b[6] + a[2] * b[5] + a[3] * b[4] + a[4] * b[3]
                + a[5] * b[2] + a[6] * b[1],
              a[1] * b[7] + a[2] * b[6] + a[3] * b[5] + a[4] * b[4]
                + a[5] * b[3] + a[6] * b[2] + a[7] * b[1],
              a[1] * b[8] + a[2] * b[7] + a[3] * b[6] + a[4] * b[5]
                + a[5] * b[4] + a[6] * b[3] + a[7] * b[2] + a[8] * b[1],
              a[2] * b[8] + a[3] * b[7] + a[4] * b[6] + a[5] * b[5]
                + a[6] * b[4] + a[7] * b[3] + a[8] * b[2],
              a[3] * b[8] + a[4] * b[7] + a[5] * b[6] + a[6] * b[5]
                + a[7] * b[4] + a[8] * b[3],
              a[4] * b[8] + a[5] * b[7] + a[6] * b[6] + a[7] * b[5]
                + a[8] * b[4],
              a[5] * b[8] + a[6] * b[7] + a[7] * b[6] + a[8] * b[5],
              a[6] * b[8] + a[7] * b[7] + a[8] * b[6],
              a[7] * b[8] + a[8] * b[7],
              a[8] * b[8],
              0>>))

---------------------------------------------------------------------------
(* The Goldilocks field: p = 2^64 - 2^32 + 1.  Every operation returns the *)
(* canonical representative; arguments may be any u64.                     *)

\* p as 9 bytes.
ORDER9 == <<1, 0, 0, 0, 255, 255, 255, 255, 0>>

\* 2p as 9 bytes.
TWO_ORDER9 == <<2, 0, 0, 0, 254, 255, 255, 255, 1>>

\* t >= p for a 9-byte number t.
GeqOrder(t) ==
  \/ t[9] > 0
  \/ /\ t[8] = 255 /\ t[7] = 255 /\ t[6] = 255 /\ t[5] = 255
     /\ (t[4] > 0 \/ t[3] > 0 \/ t[2] > 0 \/ t[1] > 0)

\* A 9-byte number below 8p reduced modulo p, as a u64.
RECURSIVE ModOrder(_)
ModOrder(x) ==
  Let1(x, LAMBDA t :
    IF GeqOrder(t)
    THEN ModOrder(Carry9(<<t[1] - ORDER9[1], t[2] - ORDER9[2],
                           t[3] - ORDER9[3], t[4] - ORDER9[4],
                           t[5] - ORDER9[5], t[6] - ORDER9[6],
                           t[7] - ORDER9[7], t[8] - ORDER9[8],
                           t[9] - ORDER9[9]>>))
    ELSE SubSeq(t, 1, 8))

\* A u128 reduced modulo p: with n = lo + 2^64 * hl + 2^96 * hh,
\* 2^64 = 2^32 - 1 and 2^96 = -1 modulo p, so n = lo + (2^32 - 1) * hl - hh;
\* p is added to keep the columns' sum positive.
reduce128(n) ==
  Let1(n, LAMBDA x :
    ModOrder(Carry9(<<x[1] + ORDER9[1] - x[9] - x[13],
                      x[2] + ORDER9[2] - x[10] - x[14],
                      x[3] + ORDER9[3] - x[11] - x[15],
                      x[4] + ORDER9[4] - x[12] - x[16],
                      x[5] + ORDER9[5] + x[9],
                      x[6] + ORDER9[6] + x[10],
                      x[7] + ORDER9[7] + x[11],
                      x[8] + ORDER9[8] + x[12],
                      0>>)))

ZERO == U64(0)

ONE == U64(1)

TWO == U64(2)

NEG_ONE == H(\hffff, \hffff, \h0000, \h0000)

to_canonical_u64(a) == ModOrder(a \o <<0>>)

to_noncanonical_u64(a) == a

from_canonical_u64(n) == n

from_canonical_u8(n) == U64(n)

\* (n_lo, n_hi) is the u96 n_lo + 2^64 * n_hi, n_hi a u32.
from_noncanonical_u96(n) == reduce128(n[1] \o n[2] \o <<0, 0, 0, 0>>)

FAdd(x, y) ==
  Let2(x, y, LAMBDA a, b :
    ModOrder(Carry9(<<a[1] + b[1], a[2] + b[2], a[3] + b[3], a[4] + b[4],
                      a[5] + b[5], a[6] + b[6], a[7] + b[7], a[8] + b[8],
                      0>>)))

\* 2p is added to keep the columns' sum positive.
FSub(x, y) ==
  Let2(x, y, LAMBDA a, b :
    ModOrder(Carry9(<<TWO_ORDER9[1] + a[1] - b[1], TWO_ORDER9[2] + a[2] - b[2],
                      TWO_ORDER9[3] + a[3] - b[3], TWO_ORDER9[4] + a[4] - b[4],
                      TWO_ORDER9[5] + a[5] - b[5], TWO_ORDER9[6] + a[6] - b[6],
                      TWO_ORDER9[7] + a[7] - b[7], TWO_ORDER9[8] + a[8] - b[8],
                      TWO_ORDER9[9]>>)))

FMul(a, b) == reduce128(U64MulWide(a, b))

square(x) == Let1(x, LAMBDA a : FMul(a, a))

\* `self.add_canonical_u64(rhs)`: self + rhs, rhs canonical.
add_canonical_u64(self, rhs) == FAdd(self, rhs)

\* `self.multiply_accumulate(x, y)`: self + x * y.
multiply_accumulate(self, x, y) == FAdd(self, FMul(x, y))

\* Equality of field elements (of their canonical representatives).
FEq(a, b) == to_canonical_u64(a) = to_canonical_u64(b)

---------------------------------------------------------------------------
(* The tables.                                                             *)

ALL_ROUND_CONSTANTS ==
  <<
    \* round 0
    H(\he034, \ha878, \h5fd2, \h84a7), H(\he246, \h3f1e, \ha42e, \h1b80), H(\h0487, \h42e6, \h81ae, \h290a),
    H(\he4af, \h50ad, \he990, \h154c), H(\h8b13, \hffaa, \hf4f7, \h8f8a), H(\he3fb, \head7, \hdccd, \h8d63),
    H(\h631a, \h4770, \h5eb9, \h2bf8), H(\h88fb, \hbb86, \h9854, \h8659), H(\h74cd, \h2003, \hb0f3, \h49c9),
    H(\he16a, \h3df6, \h764a, \h3f5d), H(\h57ce, \h6397, \h1a71, \haaa2), H(\hdc1f, \h7fd3, \he782, \h3051),
    \* round 1
    H(\hbb84, \h23be, \h34c1, \h8d7a), H(\hf8bc, \h5a2a, \h0c1b, \h3d6d), H(\hf1a0, \h1bbd, \h6f71, \h23e5),
    H(\hed96, \h0a08, \h0f5e, \h348b), H(\h1b9c, \h0c1e, \h87e2, \h390e), H(\h18c8, \h3caf, \h729a, \h613e),
    H(\h671a, \hb9fe, \h037a, \h72c4), H(\h5085, \h65f6, \h7d4c, \h276a), H(\h4d2c, \hd882, \h7a48, \h2590),
    H(\ha48e, \h11e8, \h4dd3, \h500b), H(\h825a, \h8c95, \h5fc2, \h442b), H(\hf573, \ha6ee, \h07cd, \hdc68),
    \* round 2
    H(\h7dd3, \hf19c, \h73a3, \h9e0b), H(\hcc0f, \h1353, \h7a79, \h6fa6), H(\h1d90, \h06bf, \haeda, \hc57f),
    H(\h4705, \hf69b, \h68b0, \hb7de), H(\h5b62, \hbfb7, \h18bc, \hc57f), H(\h879d, \h8217, \h7056, \h3827),
    H(\h3da5, \hccb7, \hf8df, \hf0e3), H(\hb49d, \h6a70, \h6923, \hfc5b), H(\hb6a0, \hbabe, \h883a, \h969d),
    H(\h2984, \hf9b0, \h5540, \h1960), H(\hcd34, \h96f0, \h5511, \hd79d), H(\h4791, \hda5d, \h6385, \h4fc5),
    \* round 3
    H(\hdb73, \h44d0, \h580a, \h39d4), H(\h5aed, \hc4da, \hd1de, \h120a), H(\h5e1b, \hdc1f, \hb8e1, \habf0),
    H(\h3904, \hc09a, \h0e46, \h747c), H(\hb54a, \h0e23, \hab85, \hddcd), H(\hc0c3, \hcf05, \hbccb, \hdb3a),
    H(\hb362, \h076a, \h73ba, \hf7e9), H(\h212c, \h953d, \h81a5, \hd5ba), H(\h212d, \h4cc9, \h65d8, \h98bd),
    H(\hdd44, \hddd0, \hf415, \h09b9), H(\h8931, \h329f, \ha678, \h23c0), H(\hc655, \h10f4, \hd2a8, \h73be),
    \* round 4
    H(\he3ec, \hbb6b, \ha1e1, \h6211), H(\h0000, \h0000, \h0000, \h0000), H(\h0000, \h0000, \h0000, \h0000),
    H(\h0000, \h0000, \h0000, \h0000), H(\h0000, \h0000, \h0000, \h0000), H(\h0000, \h0000, \h0000, \h0000),
    H(\h0000, \h0000, \h0000, \h0000), H(\h0000, \h0000, \h0000, \h0000), H(\h0000, \h0000, \h0000, \h0000),
    H(\h0000, \h0000, \h0000, \h0000), H(\h0000, \h0000, \h0000, \h0000), H(\h0000, \h0000, \h0000, \h0000),
    \* round 5
    H(\h70f5, \hb326, \h6792, \hbbb6), H(\h0000, \h0000, \h0000, \h0000), H(\h0000, \h0000, \h0000, \h0000),
    H(\h0000, \h0000, \h0000, \h0000), H(\h0000, \h0000, \h0000, \h0000), H(\h0000, \h0000, \h0000, \h0000),
    H(\h0000, \h0000, \h0000, \h0000), H(\h0000, \h0000, \h0000, \h0000), H(\h0000, \h0000, \h0000, \h0000),
    H(\h0000, \h0000, \h0000, \h0000), H(\h0000, \h0000, \h0000, \h0000), H(\h0000, \h0000, \h0000, \h0000),
    \* round 6
    H(\he756, \h0e69, \h0634, \h757e), H(\h0000, \h0000, \h0000, \h0000), H(\h0000, \h0000, \h0000, \h0000),
    H(\h0000, \h0000, \h0000, \h0000), H(\h0000, \h0000, \h0000, \h0000), H(\h0000, \h0000, \h0000, \h0000),
    H(\h0000, \h0000, \h0000, \h0000), H(\h0000, \h0000, \h0000, \h0000), H(\h0000, \h0000, \h0000, \h0000),
    H(\h0000, \h0000, \h0000, \h0000), H(\h0000, \h0000, \h0000, \h0000), H(\h0000, \h0000, \h0000, \h0000),
    \* round 7
    H(\hafd0, \h202b, \hc7ea, \hf66e), H(\h0000, \h0000, \h0000, \h0000), H(\h0000, \h0000, \h0000, \h0000),
    H(\h0000, \h0000, \h0000, \h0000), H(\h0000, \h0000, \h0000, \h0000), H(\h0000, \h0000, \h0000, \h0000),
    H(\h0000, \h0000, \h0000, \h0000), H(\h0000, \h0000, \h0000, \h0000), H(\h0000, \h0000, \h0000, \h0000),
    H(\h0000, \h0000, \h0000, \h0000), H(\h0000, \h0000, \h0000, \h0000), H(\h0000, \h0000, \h0000, \h0000),
    \* round 8
    H(\h349f, \h4c58, \h71f2, \h20fd), H(\h0000, \h0000, \h0000, \h0000), H(\h0000, \h0000, \h0000, \h0000),
    H(\h0000, \h0000, \h0000, \h0000), H(\h0000, \h0000, \h0000, \h0000), H(\h0000, \h0000, \h0000, \h0000),
    H(\h0000, \h0000, \h0000, \h0000), H(\h0000, \h0000, \h0000, \h0000), H(\h0000, \h0000, \h0000, \h0000),
    H(\h0000, \h0000, \h0000, \h0000), H(\h0000, \h0000, \h0000, \h0000), H(\h0000, \h0000, \h0000, \h0000),
    \* round 9
    H(\h3697, \heb3e, \h3152, \h9e0d), H(\h0000, \h0000, \h0000, \h0000), H(\h0000, \h0000, \h0000, \h0000),
    H(\h0000, \h0000, \h0000, \h0000), H(\h0000, \h0000, \h0000, \h0000), H(\h0000, \h0000, \h0000, \h0000),
    H(\h0000, \h0000, \h0000, \h0000), H(\h0000, \h0000, \h0000, \h0000), H(\h0000, \h0000, \h0000, \h0000),
    H(\h0000, \h0000, \h0000, \h0000), H(\h0000, \h0000, \h0000, \h0000), H(\h0000, \h0000, \h0000, \h0000),
    \* round 10
    H(\h7735, \hd5b0, \h622d, \h9900), H(\h0000, \h0000, \h0000, \h0000), H(\h0000, \h0000, \h0000, \h0000),
    H(\h0000, \h0000, \h0000, \h0000), H(\h0000, \h0000, \h0000, \h0000), H(\h0000, \h0000, \h0000, \h0000),
    H(\h0000, \h0000, \h0000, \h0000), H(\h0000, \h0000, \h0000, \h0000), H(\h0000, \h0000, \h0000, \h0000),
    H(\h0000, \h0000, \h0000, \h0000), H(\h0000, \h0000, \h0000, \h0000), H(\h0000, \h0000, \h0000, \h0000),
    \* round 11
    H(\h5f5b, \h58b9, \hcf99, \h7668), H(\h0000, \h0000, \h0000, \h0000), H(\h0000, \h0000, \h0000, \h0000),
    H(\h0000, \h0000, \h0000, \h0000), H(\h0000, \h0000, \h0000, \h0000), H(\h0000, \h0000, \h0000, \h0000),
    H(\h0000, \h0000, \h0000, \h0000), H(\h0000, \h0000, \h0000, \h0000), H(\h0000, \h0000, \h0000, \h0000),
    H(\h0000, \h0000, \h0000, \h0000), H(\h0000, \h0000, \h0000, \h0000), H(\h0000, \h0000, \h0000, \h0000),
    \* round 12
    H(\h6455, \h34b6, \h548a, \hf9d9), H(\h0000, \h0000, \h0000, \h0000), H(\h0000, \h0000, \h0000, \h0000),
    H(\h0000, \h0000, \h0000, \h0000), H(\h0000, \h0000, \h0000, \h0000), H(\h0000, \h0000, \h0000, \h0000),
    H(\h0000, \h0000, \h0000, \h0000), H(\h0000, \h0000, \h0000, \h0000), H(\h0000, \h0000, \h0000, \h0000),
    H(\h0000, \h0000, \h0000, \h0000), H(\h0000, \h0000, \h0000, \h0000), H(\h0000, \h0000, \h0000, \h0000),
    \* round 13
    H(\h4232, \hd29d, \h91a4, \h26a8), H(\h0000, \h0000, \h0000, \h0000), H(\h0000, \h0000, \h0000, \h0000),
    H(\h0000, \h0000, \h0000, \h0000), H(\h0000, \h0000, \h0000, \h0000), H(\h0000, \h0000, \h0000, \h0000),
    H(\h0000, \h0000, \h0000, \h0000), H(\h0000, \h0000, \h0000, \h0000), H(\h0000, \h0000, \h0000, \h0000),
    H(\h0000, \h0000, \h0000, \h0000), H(\h0000, \h0000, \h0000, \h0000), H(\h0000, \h0000, \h0000, \h0000),
    \* round 14
    H(\hb987, \h278a, \hed48, \h5d35), H(\h0000, \h0000, \h0000, \h0000), H(\h0000, \h0000, \h0000, \h0000),
    H(\h0000, \h0000, \h0000, \h0000), H(\h0000, \h0000, \h0000, \h0000), H(\h0000, \h0000, \h0000, \h0000),
    H(\h0000, \h0000, \h0000, \h0000), H(\h0000, \h0000, \h0000, \h0000), H(\h0000, \h0000, \h0000, \h0000),
    H(\h0000, \h0000, \h0000, \h0000), H(\h0000, \h0000, \h0000, \h0000), H(\h0000, \h0000, \h0000, \h0000),
    \* round 15
    H(\h6dab, \heef6, \h69bb, \h406e), H(\h0000, \h0000, \h0000, \h0000), H(\h0000, \h0000, \h0000, \h0000),
    H(\h0000, \h0000, \h0000, \h0000), H(\h0000, \h0000, \h0000, \h0000), H(\h0000, \h0000, \h0000, \h0000),
    H(\h0000, \h0000, \h0000, \h0000), H(\h0000, \h0000, \h0000, \h0000), H(\h0000, \h0000, \h0000, \h0000),
    H(\h0000, \h0000, \h0000, \h0000), H(\h0000, \h0000, \h0000, \h0000), H(\h0000, \h0000, \h0000, \h0000),
    \* round 16
    H(\h35ee, \h7828, \h8b74, \h9d40), H(\h0000, \h0000, \h0000, \h0000), H(\h0000, \h0000, \h0000, \h0000),
    H(\h0000, \h0000, \h0000, \h0000), H(\h0000, \h0000, \h0000, \h0000), H(\h0000, \h0000, \h0000, \h0000),
    H(\h0000, \h0000, \h0000, \h0000), H(\h0000, \h0000, \h0000, \h0000), H(\h0000, \h0000, \h0000, \h0000),
    H(\h0000, \h0000, \h0000, \h0000), H(\h0000, \h0000, \h0000, \h0000), H(\h0000, \h0000, \h0000, \h0000),
    \* round 17
    H(\h6dcd, \h560f, \h14af, \h0fc3), H(\h0000, \h0000, \h0000, \h0000), H(\h0000, \h0000, \h0000, \h0000),
    H(\h0000, \h0000, \h0000, \h0000), H(\h0000, \h0000, \h0000, \h0000), H(\h0000, \h0000, \h0000, \h0000),
    H(\h0000, \h0000, \h0000, \h0000), H(\h0000, \h0000, \h0000, \h0000), H(\h0000, \h0000, \h0000, \h0000),
    H(\h0000, \h0000, \h0000, \h0000), H(\h0000, \h0000, \h0000, \h0000), H(\h0000, \h0000, \h0000, \h0000),
    \* round 18
    H(\h71ed, \h3dc0, \h07ea, \h6383), H(\h0000, \h0000, \h0000, \h0000), H(\h0000, \h0000, \h0000, \h0000),
    H(\h0000, \h0000, \h0000, \h0000), H(\h0000, \h0000, \h0000, \h0000), H(\h0000, \h0000, \h0000, \h0000),
    H(\h0000, \h0000, \h0000, \h0000), H(\h0000, \h0000, \h0000, \h0000), H(\h0000, \h0000, \h0000, \h0000),
    H(\h0000, \h0000, \h0000, \h0000), H(\h0000, \h0000, \h0000, \h0000), H(\h0000, \h0000, \h0000, \h0000),
    \* round 19
    H(\h8b6b, \h51ca, \hab7f, \h5b6f), H(\h0000, \h0000, \h0000, \h0000), H(\h0000, \h0000, \h0000, \h0000),
    H(\h0000, \h0000, \h0000, \h0000), H(\h0000, \h0000, \h0000, \h0000), H(\h0000, \h0000, \h0000, \h0000),
    H(\h0000, \h0000, \h0000, \h0000), H(\h0000, \h0000, \h0000, \h0000), H(\h0000, \h0000, \h0000, \h0000),
    H(\h0000, \h0000, \h0000, \h0000), H(\h0000, \h0000, \h0000, \h0000), H(\h0000, \h0000, \h0000, \h0000),
    \* round 20
    H(\hcf2e, \h8cc4, \h181d, \hbfa8), H(\h0000, \h0000, \h0000, \h0000), H(\h0000, \h0000, \h0000, \h0000),
    H(\h0000, \h0000, \h0000, \h0000), H(\h0000, \h0000, \h0000, \h0000), H(\h0000, \h0000, \h0000, \h0000),
    H(\h0000, \h0000, \h0000, \h0000), H(\h0000, \h0000, \h0000, \h0000), H(\h0000, \h0000, \h0000, \h0000),
    H(\h0000, \h0000, \h0000, \h0000), H(\h0000, \h0000, \h0000, \h0000), H(\h0000, \h0000, \h0000, \h0000),
    \* round 21
    H(\ha01d, \h3f1c, \h306f, \h825a), H(\h0000, \h0000, \h0000, \h0000), H(\h0000, \h0000, \h0000, \h0000),
    H(\h0000, \h0000, \h0000, \h0000), H(\h0000, \h0000, \h0000, \h0000), H(\h0000, \h0000, \h0000, \h0000),
    H(\h0000, \h0000, \h0000, \h0000), H(\h0000, \h0000, \h0000, \h0000), H(\h0000, \h0000, \h0000, \h0000),
    H(\h0000, \h0000, \h0000, \h0000), H(\h0000, \h0000, \h0000, \h0000), H(\h0000, \h0000, \h0000, \h0000),
    \* round 22
    H(\hccee, \h646a, \h5d8d, \hdb87), H(\h0000, \h0000, \h0000, \h0000), H(\h0000, \h0000, \h0000, \h0000),
    H(\h0000, \h0000, \h0000, \h0000), H(\h0000, \h0000, \h0000, \h0000), H(\h0000, \h0000, \h0000, \h0000),
    H(\h0000, \h0000, \h0000, \h0000), H(\h0000, \h0000, \h0000, \h0000), H(\h0000, \h0000, \h0000, \h0000),
    H(\h0000, \h0000, \h0000, \h0000), H(\h0000, \h0000, \h0000, \h0000), H(\h0000, \h0000, \h0000, \h0000),
    \* round 23
    H(\h70df, \h6f27, \h7cba, \hffeb), H(\h0000, \h0000, \h0000, \h0000), H(\h0000, \h0000, \h0000, \h0000),
    H(\h0000, \h0000, \h0000, \h0000), H(\h0000, \h0000, \h0000, \h0000), H(\h0000, \h0000, \h0000, \h0000),
    H(\h0000, \h0000, \h0000, \h0000), H(\h0000, \h0000, \h0000, \h0000), H(\h0000, \h0000, \h0000, \h0000),
    H(\h0000, \h0000, \h0000, \h0000), H(\h0000, \h0000, \h0000, \h0000), H(\h0000, \h0000, \h0000, \h0000),
    \* round 24
    H(\h64ec, \h0a65, \h56b8, \hf45c), H(\h0000, \h0000, \h0000, \h0000), H(\h0000, \h0000, \h0000, \h0000),
    H(\h0000, \h0000, \h0000, \h0000), H(\h0000, \h0000, \h0000, \h0000), H(\h0000, \h0000, \h0000, \h0000),
    H(\h0000, \h0000, \h0000, \h0000), H(\h0000, \h0000, \h0000, \h0000), H(\h0000, \h0000, \h0000, \h0000),
    H(\h0000, \h0000, \h0000, \h0000), H(\h0000, \h0000, \h0000, \h0000), H(\h0000, \h0000, \h0000, \h0000),
    \* round 25
    H(\h6f68, \hc966, \h4fda, \h6e37), H(\h0000, \h0000, \h0000, \h0000), H(\h0000, \h0000, \h0000, \h0000),
    H(\h0000, \h0000, \h0000, \h0000), H(\h0000, \h0000, \h0000, \h0000), H(\h0000, \h0000, \h0000, \h0000),
    H(\h0000, \h0000, \h0000, \h0000), H(\h0000, \h0000, \h0000, \h0000), H(\h0000, \h0000, \h0000, \h0000),
    H(\h0000, \h0000, \h0000, \h0000), H(\h0000, \h0000, \h0000, \h0000), H(\h0000, \h0000, \h0000, \h0000),
    \* round 26
    H(\h3873, \h56e4, \h516f, \hab6f), H(\h3531, \h0dce, \h3390, \h3e67), H(\h45f3, \he525, \h1d30, \hf912),
    H(\h7c97, \hf480, \hca42, \h8f45), H(\h74d5, \h874c, \h20b5, \h0de2), H(\hff1d, \h5b7c, \hee3d, \hc67f),
    H(\ha04d, \h5d5a, \hc0ff, \h3de9), H(\h1cef, \hb5eb, \h7d24, \h580e), H(\hf685, \he1bf, \hcc01, \h04ad),
    H(\h6204, \hdd95, \hdb22, \head4), H(\h8265, \hc6c5, \h7c73, \hc440), H(\h4f70, \h8ab0, \hb4e1, \he382),
    \* round 27
    H(\hcfc6, \h0c7a, \h52fb, \hffa7), H(\h9c0c, \h1951, \hd891, \h0306), H(\h4d06, \hdf27, \hc898, \h19f2),
    H(\h621b, \hdb0e, \h75ec, \ha660), H(\h343a, \hdffd, \h079c, \hee57), H(\ha760, \hf0e5, \hdebd, \he398),
    H(\he311, \h0fef, \hd97b, \h188a), H(\h0ed6, \h584e, \h6b15, \h0297), H(\h2b10, \he625, \hd0d0, \h79c0),
    H(\hefa4, \h9344, \h2057, \h264f), H(\hebcf, \haa7b, \h3f26, \ha2b6), H(\hf36b, \hcda2, \h8e34, \h3e2a),
    \* round 28
    H(\ha118, \h3cb6, \h3b67, \haa9e), H(\h40f3, \he415, \hd5e5, \hb0ba), H(\hc51f, \hc236, \h7eff, \h7b15),
    H(\he07f, \he5f3, \haebc, \h649f), H(\hc9cb, \h2be5, \h6968, \he8aa), H(\h6486, \h00db, \h6907, \h8a0e),
    H(\h4e91, \h35ab, \h1256, \hedb9), H(\h0038, \h2c73, \h4355, \h56c2), H(\h1d78, \hcafa, \hc915, \h0ddf),
    H(\hb8df, \h60ab, \h6215, \ha233), H(\ha7a6, \h5ba3, \h1f8f, \hcd9a), H(\h907d, \h436d, \hd964, \h006b),
    \* round 29
    H(\h3bdf, \h7fd5, \h2863, \h3b97), H(\h265a, \hdb35, \h9c0c, \hc0f8), H(\hf16c, \hfc40, \h34b3, \h9614),
    H(\h71f0, \h751b, \h08fa, \h0947), H(\h3165, \heda4, \hb540, \h3a37), H(\hca30, \hfc56, \h8046, \h7e46),
    H(\h4c74, \h3354, \hd377, \h77c5), H(\h3d1f, \h0a4e, \h6bba, \h4a09), H(\hc0c2, \he289, \hafa7, \h5181),
    H(\h1e4f, \ha2ad, \h9489, \h78b7), H(\h2a22, \h6a12, \h7a0b, \hb26a), H(\he617, \h38a7, \h0357, \hce76)
  >>

MDS_MATRIX_DIAG ==
  <<
    H(\hcf6f, \h77ac, \h1672, \h2af9),
    H(\h3fd4, \hc0d7, \h4672, \haebc),
    H(\h9b72, \hbf1c, \h1c3d, \h08a8),
    H(\he494, \h0f84, \hb71e, \h4ac2),
    H(\h61b2, \h7b07, \h7118, \hbc72),
    H(\h2efd, \h8379, \hb8e6, \h61e2),
    H(\h858e, \hdcf3, \h53df, \h0341),
    H(\h2d9c, \h20af, \hfb5c, \h4516),
    H(\h5120, \h143f, \h0695, \hdefb),
    H(\h62fc, \h898a, \he34a, \h5c5b),
    H(\ha3d9, \h560c, \h9912, \h3ed2),
    H(\h98fd, \h739d, \h8e7f, \hc933)
  >>

FAST_PARTIAL_ROUND_CONSTANTS ==
  <<
    H(\he3ec, \hbb6b, \ha1e1, \h6211),
    H(\h70f5, \hb326, \h6792, \hbbb6),
    H(\he756, \h0e69, \h0634, \h757e),
    H(\hafd0, \h202b, \hc7ea, \hf66e),
    H(\h349f, \h4c58, \h71f2, \h20fd),
    H(\h3697, \heb3e, \h3152, \h9e0d),
    H(\h7735, \hd5b0, \h622d, \h9900),
    H(\h5f5b, \h58b9, \hcf99, \h7668),
    H(\h6455, \h34b6, \h548a, \hf9d9),
    H(\h4232, \hd29d, \h91a4, \h26a8),
    H(\hb987, \h278a, \hed48, \h5d35),
    H(\h6dab, \heef6, \h69bb, \h406e),
    H(\h35ee, \h7828, \h8b74, \h9d40),
    H(\h6dcd, \h560f, \h14af, \h0fc3),
    H(\h71ed, \h3dc0, \h07ea, \h6383),
    H(\h8b6b, \h51ca, \hab7f, \h5b6f),
    H(\hcf2e, \h8cc4, \h181d, \hbfa8),
    H(\ha01d, \h3f1c, \h306f, \h825a),
    H(\hccee, \h646a, \h5d8d, \hdb87),
    H(\h70df, \h6f27, \h7cba, \hffeb),
    H(\h64ec, \h0a65, \h56b8, \hf45c),
    H(\h6f68, \hc966, \h4fda, \h6e37)
  >>

neg_one == to_canonical_u64(NEG_ONE)

test_vectors12 ==
  <<
    <<  <<U64(0), U64(0), U64(0), U64(0), U64(0), U64(0),
        U64(0), U64(0), U64(0), U64(0), U64(0), U64(0)>>,
        <<H(\h40e4, \hc449, \h0284, \h40b0), H(\h8d52, \h33d4, \he1ff, \h2fa3), H(\hd880, \h9d1a, \hd0ac, \h1e59),
        H(\h5b9f, \h29d2, \hbf3a, \h7634), H(\hb652, \h33ad, \h9dac, \h1203), H(\h7ad0, \h0f99, \h50e4, \hcac3),
        H(\h98a0, \he39e, \h8dac, \h0fcf), H(\hd307, \h875f, \hfd78, \h3c9b), H(\h52ee, \hdea1, \h5d51, \h13c1),
        H(\hdd05, \h7218, \h5641, \hc6cd), H(\hf16b, \hca8e, \h9ac4, \h5377), H(\he860, \h8627, \hf867, \h06ee)>> >>,
    <<  <<U64(0), U64(1), U64(2), U64(3), U64(4), U64(5),
        U64(6), U64(7), U64(8), U64(9), U64(10), U64(11)>>,
        <<H(\hed3d, \hbcc4, \hff1e, \h8d33), H(\hfb85, \heac6, \hac91, \ha150), H(\hd41e, \h1e23, \h7ed3, \he2ef),
        H(\h5e28, \h9bf0, \ha4c1, \h1897), H(\h4398, \hb20f, \h93e3, \hba6b), H(\h5659, \ha48f, \hfaf2, \h901d),
        H(\he44d, \h81e8, \h9a88, \hf8ae), H(\h08ef, \hdb28, \h5f8c, \h3dbc), H(\h294a, \hb750, \h3297, \h850e),
        H(\ha11c, \h61f4, \h870b, \h9904), H(\ha685, \h5c11, \h2cc0, \h8968), H(\h17c6, \hd53d, \h2fb3, \he8c1)>> >>,
    <<  <<neg_one, neg_one, neg_one, neg_one, neg_one, neg_one,
        neg_one, neg_one, neg_one, neg_one, neg_one, neg_one>>,
        <<H(\h4344, \h0ca9, \h3949, \hb6a3), H(\h0b53, \h2506, \h9fc0, \hc5be), H(\h27f2, \h0a69, \h6c4a, \h412f),
        H(\hd3ef, \h1fc5, \h3554, \h4e99), H(\ha86f, \h1149, \h30aa, \h54e7), H(\he8de, \h9665, \h8e80, \h539a),
        H(\hf491, \hb996, \hd437, \h406e), H(\h4a72, \hb9ae, \h397d, \ha707), H(\h47e6, \h7211, \h12b1, \h948a),
        H(\hd315, \hf6e6, \ha1f6, \h94c4), H(\heaef, \h9371, \h4a28, \hf7e9), H(\h073a, \h68e8, \hd713, \hb126)>> >>,
    <<  <<H(\h1d7c, \h737c, \hc91e, \h6483), H(\h4feb, \h5549, \h6ea6, \hb6e6), H(\h5342, \h3d77, \hd4f3, \h0aa2),
        H(\he613, \h8c88, \h5b0a, \h5dbf), H(\h6b48, \h3f95, \hc6db, \h532a), H(\he679, \hbe95, \h27cd, \hb0b5),
        H(\h0a17, \hd03a, \he46d, \h7a37), H(\he547, \h03b5, \hc2b2, \h0691), H(\h335f, \h1485, \hf09e, \h0343),
        H(\h06dc, \h5448, \h17c0, \h912e), H(\h3021, \hfdd0, \h9dd3, \hc146), H(\h5988, \h6699, \hbae1, \ha62f)>>,
        <<H(\hdcad, \h441e, \hf7e6, \h5d47), H(\h95c2, \hbda1, \h47c5, \ha79d), H(\hc60f, \hdabe, \he2f2, \hb228),
        H(\h3a6f, \he78e, \hd2ed, \hcfe2), H(\h4cbe, \h241c, \h5329, \he4aa), H(\h1fa8, \h7ef1, \hdf8f, \h5a16),
        H(\h3586, \he88a, \h1da0, \he9d4), H(\hf0a1, \h7176, \h3063, \hec4d), H(\h53f4, \hbd20, \h9389, \h96a8),
        H(\hc1d1, \hef0e, \h1ab6, \ha925), H(\h3d20, \hed27, \h99ff, \hce06), H(\h1235, \h7cf8, \h54fb, \hc4a8)>> >>
  >>

---------------------------------------------------------------------------
(* Poseidon over the base field.                                           *)

\* The state [f(0), .., f(11)], lane by lane.
Lanes(f(_)) ==
  <<f(0), f(1), f(2), f(3), f(4), f(5), f(6), f(7), f(8), f(9), f(10), f(11)>>

\* One pass of the first loop of mds_layer: the cheap 4x4 matrix on the four
\* lanes from start_index, in u128.  Lane i of the code is element i + 1.
mds_layer_block(st, start_index) ==
  Let2(as_u128(to_noncanonical_u64(st[start_index + 1])),
       as_u128(to_noncanonical_u64(st[start_index + 2])), LAMBDA s0, s1 :
  Let2(as_u128(to_noncanonical_u64(st[start_index + 3])),
       as_u128(to_noncanonical_u64(st[start_index + 4])), LAMBDA s2, s3 :
  Let2(U128Add(s0, s1), U128Add(s2, s3), LAMBDA t0, t1 :
  Let2(U128Add(t1, U128MulSmall(2, s1)),
       U128Add(t0, U128MulSmall(2, s3)), LAMBDA t2, t3 :
  Let2(U128Add(t3, U128MulSmall(4, t1)),
       U128Add(t2, U128MulSmall(4, t0)), LAMBDA t4, t5 :
    <<U128Add(t3, t5), t5, U128Add(t2, t4), t4>>)))))

\* The two loops of mds_layer that fill result_u128 and stored, and the
\* sums of the third loop, before their reduction.
mds_layer_u128(state_) ==
  Let1(state_, LAMBDA st :
  Let1(mds_layer_block(st, 0) \o mds_layer_block(st, 4)
         \o mds_layer_block(st, 8), LAMBDA result_u128 :
  Let1(<<U128Add(U128Add(result_u128[1], result_u128[5]), result_u128[9]),
         U128Add(U128Add(result_u128[2], result_u128[6]), result_u128[10]),
         U128Add(U128Add(result_u128[3], result_u128[7]), result_u128[11]),
         U128Add(U128Add(result_u128[4], result_u128[8]), result_u128[12])>>,
       LAMBDA stored :
    Lanes(LAMBDA i : U128Add(result_u128[i + 1], stored[(i % 4) + 1])))))

\* The reduction without the bits of the sum above 2^64.
mds_layer_reduce_NoHigh(sum_) ==
  Let1(sum_, LAMBDA sum :
    LET sum_lo == as_u64(sum)
    IN  from_noncanonical_u96(<<sum_lo, <<0, 0, 0, 0>>>>))

\* The reduction of the third loop of mds_layer.
mds_layer_reduce(sum_) ==
  Let1(sum_, LAMBDA sum :
    LET sum_lo == as_u64(sum)
        sum_hi == shr64_as_u32(sum)
    IN  from_noncanonical_u96(<<sum_lo, sum_hi>>))

mds_layer(state_) ==
  Let1(mds_layer_u128(state_), LAMBDA sums :
    Lanes(LAMBDA i : mds_layer_reduce(sums[i + 1])))

\* The sum of the lanes without lane 0.
mds_partial_sum_u128_From1(st) ==
  LET s(i) == as_u128(to_noncanonical_u64(st[i + 1]))
  IN  U128Add(U128Add(U128Add(U128Add(U128Add(U128Add(U128Add(U128Add(
        U128Add(U128Add(s(1), s(2)), s(3)), s(4)), s(5)),
        s(6)), s(7)), s(8)), s(9)), s(10)), s(11))

\* The first loop of mds_partial_layer_fast: the u128 sum of the lanes.
mds_partial_sum_u128(st) ==
  LET s(i) == as_u128(to_noncanonical_u64(st[i + 1]))
  IN  U128Add(U128Add(U128Add(U128Add(U128Add(U128Add(U128Add(U128Add(
        U128Add(U128Add(U128Add(s(0), s(1)), s(2)), s(3)), s(4)), s(5)),
        s(6)), s(7)), s(8)), s(9)), s(10)), s(11))

mds_partial_layer_fast(state_) ==
  Let1(state_, LAMBDA st :
  Let1(mds_layer_reduce(mds_partial_sum_u128(st)), LAMBDA sum :
    Lanes(LAMBDA i :
      LET t == from_canonical_u64(MDS_MATRIX_DIAG[i + 1])
      IN  multiply_accumulate(sum, st[i + 1], t))))

constant_layer(state_, ctr) ==
  Let1(state_, LAMBDA st :
    Lanes(LAMBDA i :
      LET round_constant == ALL_ROUND_CONSTANTS[i + WIDTH * ctr + 1]
      IN  add_canonical_u64(st[i + 1], round_constant)))

\* x |--> x^5: the last product takes x2 for x4.
sbox_monomial_Fifth(x_) ==
  Let1(x_, LAMBDA x :
  Let1(square(x), LAMBDA x2 :
  Let2(square(x2), FMul(x, x2), LAMBDA x4, x3 :
    FMul(x3, x2))))

\* x |--> x^7
sbox_monomial(x_) ==
  Let1(x_, LAMBDA x :
  Let1(square(x), LAMBDA x2 :
  Let2(square(x2), FMul(x, x2), LAMBDA x4, x3 :
    FMul(x3, x4))))

sbox_layer(state_) ==
  Let1(state_, LAMBDA st : Lanes(LAMBDA i : sbox_monomial(st[i + 1])))

---------------------------------------------------------------------------
(* Sample values and states.                                               *)

\* The largest u64: a non-canonical representative (of 2^32 - 2).
MAX_U64 == H(\hffff, \hffff, \hffff, \hffff)

\* A u64 made from three small numbers.
Scramble(n, i, k) ==
  LET byte(b) == (n * 131 + i * 31 + b * 17 + k * 73 + n * i * b + k * b * b) % 256
  IN  <<byte(1), byte(2), byte(3), byte(4), byte(5), byte(6), byte(7), byte(8)>>

\* The number of sample inputs of the permutation.
MaxInput == 5

\* Sample inputs: the four inputs of test_vectors, the all-MAX_U64 state,
\* then scrambled states.
SampleInput(n) ==
  IF n <= 4 THEN test_vectors12[n][1]
  ELSE IF n = 5 THEN Lanes(LAMBDA i : MAX_U64)
  ELSE Lanes(LAMBDA i : Scramble(n, i, 0))

---------------------------------------------------------------------------
(* poseidon(input), one action per layer applied.                          *)

PermInit ==
  /\ input \in {SampleInput(n) : n \in 1..MaxInput}
  /\ state = input
  /\ round_ctr = 0
  /\ pc = "mds_layer"
  /\ loop_i = 0
  /\ steps = <<>>
  /\ cfg_D = 1
  /\ LayIdle /\ GateIdle /\ EvalIdle /\ CircuitIdle /\ SchedIdle

\* poseidon calls full_rounds after the linear layer and after
\* partial_rounds, and partial_rounds in between.
NextPhase_PartialFirst(p) ==
  CASE p = "mds_layer" -> "partial_rounds"
    [] p = "partial_rounds" -> "full_rounds_1"
    [] p = "full_rounds_1" -> "full_rounds_2"
    [] p = "full_rounds_2" -> "assert"

\* The statement of poseidon that follows statement p.
NextPhase(p) ==
  CASE p = "mds_layer" -> "full_rounds_1"
    [] p = "full_rounds_1" -> "partial_rounds"
    [] p = "partial_rounds" -> "full_rounds_2"
    [] p = "full_rounds_2" -> "assert"

\* state = Self::mds_layer(&state);
InitialMds ==
  /\ pc = "mds_layer"
  /\ state' = mds_layer(state)
  /\ steps' = Append(steps, "mds")
  /\ pc' = NextPhase(pc)
  /\ loop_i' = 0
  /\ UNCHANGED <<input, round_ctr>>
  /\ UNCHANGED <<cfg_D, schedVars, layVars, gateVars, evalVars, circuitVars>>

\* One pass of the loop of full_rounds.
FullRound ==
  /\ pc \in {"full_rounds_1", "full_rounds_2"}
  /\ loop_i < HALF_N_FULL_ROUNDS
  /\ state' = mds_layer(sbox_layer(constant_layer(state, round_ctr)))
  /\ round_ctr' = round_ctr + 1
  /\ steps' = Append(steps, "full")
  /\ loop_i' = loop_i + 1
  /\ UNCHANGED <<input, pc>>
  /\ UNCHANGED <<cfg_D, schedVars, layVars, gateVars, evalVars, circuitVars>>

\* full_rounds returns.
FullRoundsReturn ==
  /\ pc \in {"full_rounds_1", "full_rounds_2"}
  /\ loop_i = HALF_N_FULL_ROUNDS
  /\ pc' = NextPhase(pc)
  /\ loop_i' = 0
  /\ UNCHANGED <<input, state, round_ctr, steps>>
  /\ UNCHANGED <<cfg_D, schedVars, layVars, gateVars, evalVars, circuitVars>>

\* One pass of the loop of partial_rounds that reads the table at the round
\* counter: ALL_ROUND_CONSTANTS[WIDTH * round_ctr].
PartialRound_TableAtCounter ==
  /\ pc = "partial_rounds"
  /\ loop_i < N_PARTIAL_ROUNDS
  /\ LET c == ALL_ROUND_CONSTANTS[WIDTH * round_ctr + 1]
         s0 == sbox_monomial(add_canonical_u64(state[1], c))
     IN  state' = mds_partial_layer_fast([state EXCEPT ![1] = s0])
  /\ steps' = Append(steps, "partial")
  /\ loop_i' = loop_i + 1
  /\ UNCHANGED <<input, round_ctr, pc>>
  /\ UNCHANGED <<cfg_D, schedVars, layVars, gateVars, evalVars, circuitVars>>

\* One pass of the loop of partial_rounds.
PartialRound ==
  /\ pc = "partial_rounds"
  /\ loop_i < N_PARTIAL_ROUNDS
  /\ LET c == FAST_PARTIAL_ROUND_CONSTANTS[loop_i + 1]
         s0 == sbox_monomial(add_canonical_u64(state[1], c))
     IN  state' = mds_partial_layer_fast([state EXCEPT ![1] = s0])
  /\ steps' = Append(steps, "partial")
  /\ loop_i' = loop_i + 1
  /\ UNCHANGED <<input, round_ctr, pc>>
  /\ UNCHANGED <<cfg_D, schedVars, layVars, gateVars, evalVars, circuitVars>>

\* partial_rounds returns without `*round_ctr += N_PARTIAL_ROUNDS`.
PartialRoundsReturn_NoAdd ==
  /\ pc = "partial_rounds"
  /\ loop_i = N_PARTIAL_ROUNDS
  /\ pc' = NextPhase(pc)
  /\ loop_i' = 0
  /\ UNCHANGED <<input, state, round_ctr, steps>>
  /\ UNCHANGED <<cfg_D, schedVars, layVars, gateVars, evalVars, circuitVars>>

\* *round_ctr += N_PARTIAL_ROUNDS; and partial_rounds returns.
PartialRoundsReturn ==
  /\ pc = "partial_rounds"
  /\ loop_i = N_PARTIAL_ROUNDS
  /\ round_ctr' = round_ctr + N_PARTIAL_ROUNDS
  /\ pc' = NextPhase(pc)
  /\ loop_i' = 0
  /\ UNCHANGED <<input, state, steps>>
  /\ UNCHANGED <<cfg_D, schedVars, layVars, gateVars, evalVars, circuitVars>>

\* debug_assert_eq!(round_ctr, N_ROUNDS); state
PoseidonReturn ==
  /\ pc = "assert"
  /\ pc' = IF round_ctr = N_ROUNDS THEN "done" ELSE "panic"
  /\ UNCHANGED <<input, state, round_ctr, loop_i, steps>>
  /\ UNCHANGED <<cfg_D, schedVars, layVars, gateVars, evalVars, circuitVars>>

PermNext ==
  \/ InitialMds
  \/ FullRound
  \/ FullRoundsReturn
  \/ PartialRound
  \/ PartialRoundsReturn
  \/ PoseidonReturn

Init == PermInit

Next == PermNext

Spec == Init /\ [][Next]_vars

---------------------------------------------------------------------------
(* The round counter and the order of the layers.                          *)

\* C1: the debug_assert_eq at the end of poseidon never fails: when poseidon
\* returns, round_ctr = N_ROUNDS = 30.  The first full_rounds call leaves it
\* at 4, partial_rounds at 4 + 22, the second full_rounds call at 30.
C1_RoundCounter ==
  /\ pc # "panic"
  /\ N_ROUNDS = 30
  /\ pc = "full_rounds_1" => round_ctr = loop_i
  /\ pc = "partial_rounds" => round_ctr = HALF_N_FULL_ROUNDS
  /\ pc = "full_rounds_2" =>
       round_ctr = HALF_N_FULL_ROUNDS + N_PARTIAL_ROUNDS + loop_i
  /\ pc \in {"assert", "done"} => round_ctr = N_ROUNDS

C1_Witness == pc = "done" /\ round_ctr = 30

\* n copies of x.
Repeat(x, n) == [k \in 1..n |-> x]

\* The layers of one poseidon call, in order.
ExpectedSteps ==
  <<"mds">> \o Repeat("full", HALF_N_FULL_ROUNDS)
    \o Repeat("partial", N_PARTIAL_ROUNDS) \o Repeat("full", HALF_N_FULL_ROUNDS)

\* C2: the layers applied so far are always a prefix of: one mds layer, 4 full
\* rounds, 22 partial rounds, 4 full rounds; and all of them when poseidon
\* returns.
C2_LayerOrder ==
  /\ Len(steps) <= Len(ExpectedSteps)
  /\ steps = SubSeq(ExpectedSteps, 1, Len(steps))
  /\ pc \in {"assert", "done", "panic"} => steps = ExpectedSteps
  /\ pc = "mds_layer" <=> steps = <<>>

C2_Witness == pc = "done" /\ Len(steps) = 31 /\ steps[6] = "partial"

---------------------------------------------------------------------------
(* The extension F[X] / (X^D - W) of the Goldilocks field: an element is   *)
(* the tuple of its D coefficients, lowest first.                          *)

\* The D-tuple [f(0), .., f(D - 1)].
Coords(D, f(_)) ==
  CASE D = 1 -> <<f(0)>>
    [] D = 2 -> <<f(0), f(1)>>
    [] D = 3 -> <<f(0), f(1), f(2)>>
    [] D = 4 -> <<f(0), f(1), f(2), f(3)>>
    [] D = 5 -> <<f(0), f(1), f(2), f(3), f(4)>>

\* The degrees D with `impl Extendable<D> for GoldilocksField`.
ExtensionDegrees == {1, 2, 4, 5}

\* Extendable<D>::W
W(D) ==
  CASE D = 1 -> ONE
    [] D = 2 -> U64(7)
    [] D = 4 -> U64(7)
    [] D = 5 -> U64(3)
    [] OTHER -> ONE

\* The embedding of the base field: FieldExtension::from_basefield.
from_basefield(D, x) == Coords(D, LAMBDA k : IF k = 0 THEN x ELSE ZERO)

from_basefield_array(D, arr) == Coords(D, LAMBDA k : arr[k + 1])

to_basefield_array(x) == x

ExtZERO(D) == from_basefield(D, ZERO)

ExtTWO(D) == from_basefield(D, TWO)

ext_from_canonical_u8(D, n) == from_basefield(D, from_canonical_u8(n))

ext_from_canonical_u64(D, n) == from_basefield(D, from_canonical_u64(n))

ExtAdd(D, a, b) ==
  Let2(a, b, LAMBDA x, y : Coords(D, LAMBDA k : FAdd(x[k + 1], y[k + 1])))

ExtSub(D, a, b) ==
  Let2(a, b, LAMBDA x, y : Coords(D, LAMBDA k : FSub(x[k + 1], y[k + 1])))

\* The terms x_i * y_j * X^(i + j) of a product that fall on X^k, from x_i on:
\* those with i + j = k, and W times those with i + j = k + D.
RECURSIVE ExtMulSum(_, _, _, _, _)
ExtMulSum(D, x, y, k, i) ==
  IF i = D THEN ZERO
  ELSE LET j == (k - i) % D
           xy == FMul(x[i + 1], y[j + 1])
           term == IF i + j >= D THEN FMul(W(D), xy) ELSE xy
       IN  FAdd(term, ExtMulSum(D, x, y, k, i + 1))

ExtMul(D, a, b) ==
  Let2(a, b, LAMBDA x, y : Coords(D, LAMBDA k : ExtMulSum(D, x, y, k, 0)))

\* `self.multiply_accumulate(x, y)` in the extension: self + x * y.
ext_multiply_accumulate(D, self, x, y) == ExtAdd(D, self, ExtMul(D, x, y))

---------------------------------------------------------------------------
(* The linear layers over an extension field.                              *)

\* One pass of the first loop of mds_layer_field.
mds_layer_field_block_Four(D, st, start_index) ==
  LET four == ext_from_canonical_u8(D, 4)
  IN
  Let2(ExtAdd(D, st[start_index + 1], st[start_index + 2]),
       ExtAdd(D, st[start_index + 3], st[start_index + 4]), LAMBDA t0, t1 :
  Let2(ext_multiply_accumulate(D, t1, st[start_index + 2], four),
       ext_multiply_accumulate(D, t0, st[start_index + 4], four),
       LAMBDA t2, t3 :
  Let2(ext_multiply_accumulate(D, t3, t1, four),
       ext_multiply_accumulate(D, t2, t0, four), LAMBDA t4, t5 :
    <<ExtAdd(D, t3, t5), t5, ExtAdd(D, t2, t4), t4>>)))

\* One pass of the first loop of mds_layer_field.
mds_layer_field_block(D, st, start_index) ==
  LET four == ext_from_canonical_u8(D, 4)
  IN
  Let2(ExtAdd(D, st[start_index + 1], st[start_index + 2]),
       ExtAdd(D, st[start_index + 3], st[start_index + 4]), LAMBDA t0, t1 :
  Let2(ext_multiply_accumulate(D, t1, st[start_index + 2], ExtTWO(D)),
       ext_multiply_accumulate(D, t0, st[start_index + 4], ExtTWO(D)),
       LAMBDA t2, t3 :
  Let2(ext_multiply_accumulate(D, t3, t1, four),
       ext_multiply_accumulate(D, t2, t0, four), LAMBDA t4, t5 :
    <<ExtAdd(D, t3, t5), t5, ExtAdd(D, t2, t4), t4>>)))

mds_layer_field(D, state_) ==
  Let1(state_, LAMBDA st :
  Let1(mds_layer_field_block(D, st, 0) \o mds_layer_field_block(D, st, 4)
         \o mds_layer_field_block(D, st, 8), LAMBDA result :
  Let1(<<ExtAdd(D, ExtAdd(D, result[1], result[5]), result[9]),
         ExtAdd(D, ExtAdd(D, result[2], result[6]), result[10]),
         ExtAdd(D, ExtAdd(D, result[3], result[7]), result[11]),
         ExtAdd(D, ExtAdd(D, result[4], result[8]), result[12])>>,
       LAMBDA stored :
    Lanes(LAMBDA i : ExtAdd(D, result[i + 1], stored[(i % 4) + 1])))))

\* The first loop of mds_partial_layer_fast_field: the sum of the lanes.
mds_partial_sum_field(D, st) ==
  LET s(i) == st[i + 1]
  IN  ExtAdd(D, ExtAdd(D, ExtAdd(D, ExtAdd(D, ExtAdd(D, ExtAdd(D, ExtAdd(D,
        ExtAdd(D, ExtAdd(D, ExtAdd(D, ExtAdd(D, s(0), s(1)), s(2)), s(3)),
        s(4)), s(5)), s(6)), s(7)), s(8)), s(9)), s(10)), s(11))

mds_partial_layer_fast_field(D, state_) ==
  Let1(state_, LAMBDA st :
  Let1(mds_partial_sum_field(D, st), LAMBDA sum :
    Lanes(LAMBDA i :
      LET t == ext_from_canonical_u64(D, MDS_MATRIX_DIAG[i + 1])
      IN  ext_multiply_accumulate(D, sum, st[i + 1], t))))

---------------------------------------------------------------------------
(* PoseidonMdsGate<F, D>: the wires and the counts.  A Range a..b is the   *)
(* pair <<a, b>>.                                                          *)

\* wires_output with `SPONGE_WIDTH + i * D` for `(SPONGE_WIDTH + i) * D`.
wires_output_NoParentheses(D, i) ==
  IF i < SPONGE_WIDTH
  THEN <<SPONGE_WIDTH + i * D, SPONGE_WIDTH + (i + 1) * D>>
  ELSE "panic"

wires_input(D, i) ==
  IF i < SPONGE_WIDTH THEN <<i * D, (i + 1) * D>> ELSE "panic"

wires_output(D, i) ==
  IF i < SPONGE_WIDTH
  THEN <<(SPONGE_WIDTH + i) * D, (SPONGE_WIDTH + i + 1) * D>>
  ELSE "panic"

num_wires(D) == 2 * D * SPONGE_WIDTH

num_constants == 0

degree == 1

\* num_constraints that counts the lanes.
num_constraints_Lanes(D) == SPONGE_WIDTH

num_constraints(D) == SPONGE_WIDTH * D

---------------------------------------------------------------------------
(* The extension algebra ExtensionAlgebra<F::Extension, D>: an element is  *)
(* the tuple of its D coefficients, each an extension field element.       *)

AlgZERO(D) == Coords(D, LAMBDA k : ExtZERO(D))

AlgAdd(D, a, b) ==
  Let2(a, b, LAMBDA x, y : Coords(D, LAMBDA k : ExtAdd(D, x[k + 1], y[k + 1])))

AlgSub(D, a, b) ==
  Let2(a, b, LAMBDA x, y : Coords(D, LAMBDA k : ExtSub(D, x[k + 1], y[k + 1])))

\* `self.scalar_mul(scalar)`: every coefficient times the scalar.
scalar_mul(D, self, scalar) ==
  Let2(self, scalar, LAMBDA x, s : Coords(D, LAMBDA k : ExtMul(D, x[k + 1], s)))

\* EvaluationVarsBase::get_local_ext: D base-field wires as one element of
\* the extension.
get_local_ext(D, local_wires_, wire_range) ==
  from_basefield_array(D, SubSeq(local_wires_, wire_range[1] + 1, wire_range[2]))

\* EvaluationVars::get_local_ext_algebra: D extension-field wires as one
\* element of the extension algebra.  EvaluationTargets::get_local_ext_algebra
\* does the same with targets.
get_local_ext_algebra(D, local_wires_, wire_range) ==
  SubSeq(local_wires_, wire_range[1] + 1, wire_range[2])

\* The concatenation of the 12 tuples of x: flat_map over the lanes.
FlatMap(x_) ==
  Let1(x_, LAMBDA x :
    x[1] \o x[2] \o x[3] \o x[4] \o x[5] \o x[6] \o x[7] \o x[8] \o x[9]
      \o x[10] \o x[11] \o x[12])

---------------------------------------------------------------------------
(* The gate's layer over the extension algebra, and its evaluations.       *)

\* The pass with t1 scaled by a coefficient of t1 instead of four.
mds_layer_algebra_block_Quadratic(D, st, start_index) ==
  LET four == ext_from_canonical_u8(D, 4)
  IN
  Let2(AlgAdd(D, st[start_index + 1], st[start_index + 2]),
       AlgAdd(D, st[start_index + 3], st[start_index + 4]), LAMBDA t0, t1 :
  Let2(AlgAdd(D, AlgAdd(D, t1, st[start_index + 2]), st[start_index + 2]),
       AlgAdd(D, AlgAdd(D, t0, st[start_index + 4]), st[start_index + 4]),
       LAMBDA t2, t3 :
  Let2(AlgAdd(D, t3, scalar_mul(D, t1, t1[1])),
       AlgAdd(D, t2, scalar_mul(D, t0, four)), LAMBDA t4, t5 :
    <<AlgAdd(D, t3, t5), t5, AlgAdd(D, t2, t4), t4>>)))

\* One pass of the first loop of mds_layer_algebra.
mds_layer_algebra_block(D, st, start_index) ==
  LET four == ext_from_canonical_u8(D, 4)
  IN
  Let2(AlgAdd(D, st[start_index + 1], st[start_index + 2]),
       AlgAdd(D, st[start_index + 3], st[start_index + 4]), LAMBDA t0, t1 :
  Let2(AlgAdd(D, AlgAdd(D, t1, st[start_index + 2]), st[start_index + 2]),
       AlgAdd(D, AlgAdd(D, t0, st[start_index + 4]), st[start_index + 4]),
       LAMBDA t2, t3 :
  Let2(AlgAdd(D, t3, scalar_mul(D, t1, four)),
       AlgAdd(D, t2, scalar_mul(D, t0, four)), LAMBDA t4, t5 :
    <<AlgAdd(D, t3, t5), t5, AlgAdd(D, t2, t4), t4>>)))

mds_layer_algebra(D, state_) ==
  Let1(state_, LAMBDA st :
  Let1(mds_layer_algebra_block(D, st, 0) \o mds_layer_algebra_block(D, st, 4)
         \o mds_layer_algebra_block(D, st, 8), LAMBDA result :
  Let1(<<AlgAdd(D, AlgAdd(D, result[1], result[5]), result[9]),
         AlgAdd(D, AlgAdd(D, result[2], result[6]), result[10]),
         AlgAdd(D, AlgAdd(D, result[3], result[7]), result[11]),
         AlgAdd(D, AlgAdd(D, result[4], result[8]), result[12])>>,
       LAMBDA stored :
    Lanes(LAMBDA i : AlgAdd(D, result[i + 1], stored[(i % 4) + 1])))))

\* vars.local_wires holds num_wires extension field elements.
eval_unfiltered(D, local_wires_) ==
  Let1(local_wires_, LAMBDA lw :
  Let1(Lanes(LAMBDA i : get_local_ext_algebra(D, lw, wires_input(D, i))),
       LAMBDA inputs :
  Let1(mds_layer_algebra(D, inputs), LAMBDA computed_outputs :
    FlatMap(Lanes(LAMBDA i :
      LET out == get_local_ext_algebra(D, lw, wires_output(D, i))
          computed_out == computed_outputs[i + 1]
      IN  AlgSub(D, out, computed_out))))))

\* eval_unfiltered_base_one that yields computed_out - out.
eval_unfiltered_base_one_Swapped(D, local_wires_) ==
  Let1(local_wires_, LAMBDA lw :
  Let1(Lanes(LAMBDA i : get_local_ext(D, lw, wires_input(D, i))),
       LAMBDA inputs :
  Let1(mds_layer_field(D, inputs), LAMBDA computed_outputs :
    FlatMap(Lanes(LAMBDA i :
      LET out == get_local_ext(D, lw, wires_output(D, i))
          computed_out == computed_outputs[i + 1]
      IN  to_basefield_array(ExtSub(D, computed_out, out)))))))

\* vars.local_wires holds num_wires base field elements; the result is what
\* yield_constr is given, in order.
eval_unfiltered_base_one(D, local_wires_) ==
  Let1(local_wires_, LAMBDA lw :
  Let1(Lanes(LAMBDA i : get_local_ext(D, lw, wires_input(D, i))),
       LAMBDA inputs :
  Let1(mds_layer_field(D, inputs), LAMBDA computed_outputs :
    FlatMap(Lanes(LAMBDA i :
      LET out == get_local_ext(D, lw, wires_output(D, i))
          computed_out == computed_outputs[i + 1]
      IN  to_basefield_array(ExtSub(D, out, computed_out)))))))

\* The n-tuple [f(0), .., f(n - 1)].
Tuple(n, f(_)) == SubSeq([w \in 1..n |-> f(w - 1)], 1, n)

\* PoseidonMdsGenerator::run_once on the wires of the generator's row: the
\* wires of wires_output(i) are set to lane i of mds_layer_field of the
\* input wires, the others are left as they are.
run_once(D, witness_) ==
  Let1(witness_, LAMBDA witness :
  Let1(Lanes(LAMBDA i : get_local_ext(D, witness, wires_input(D, i))),
       LAMBDA inputs :
  Let1(mds_layer_field(D, inputs), LAMBDA outputs :
    Tuple(Len(witness), LAMBDA w :
      LET is == {i \in 0..(SPONGE_WIDTH - 1) :
                   /\ wires_output(D, i)[1] <= w
                   /\ w < wires_output(D, i)[2]}
      IN  IF is = {} THEN witness[w + 1]
          ELSE LET i == CHOOSE i \in is : \A i2 \in is : i2 <= i
               IN  outputs[i + 1][w - wires_output(D, i)[1] + 1]))))

---------------------------------------------------------------------------
(* CircuitBuilder<F, D>.  The builder holds the operations added so far    *)
(* (nodes), the gates added by add_gate (one row each) and the copy        *)
(* constraints.  A target is a record [k, a, b]:                           *)
(*   k = "wire":  wire a of the row under evaluation (EvaluationTargets),  *)
(*                or lane a of the state given to mds_layer_circuit;       *)
(*   k = "node":  the result of operation a;                               *)
(*   k = "ext":   convert_to_ext of the base-field target of operation a;  *)
(*   k = "range": ExtensionTarget::from_range(a, b..b + D).                *)
(* An operation is a record [op, x, y, z, c] of operand targets x, y, z    *)
(* and a constant c.  Constants are not shared between calls.              *)

Target(k, a, b) == [k |-> k, a |-> a, b |-> b]

NoTarget == Target("none", 0, 0)

Operation(op, x, y, z, c) == [op |-> op, x |-> x, y |-> y, z |-> z, c |-> c]

\* CircuitBuilder::new(config)
NewBuilder(num_routed_wires) ==
  [num_routed_wires |-> num_routed_wires, nodes |-> <<>>, gates |-> <<>>,
   copies |-> <<>>]

\* Every builder method returns the pair of the builder afterwards and of
\* the method's result.
AddOperation(bld, operation) ==
  <<[bld EXCEPT !.nodes = Append(bld.nodes, operation)],
    Target("node", Len(bld.nodes) + 1, 0)>>

\* builder.constant(c), c in the base field.
constant(bld, c) ==
  AddOperation(bld, Operation("constant", NoTarget, NoTarget, NoTarget, c))

\* builder.constant_extension(c)
constant_extension(bld, c) ==
  AddOperation(bld,
    Operation("constant_extension", NoTarget, NoTarget, NoTarget, c))

zero_extension(D, bld) == constant_extension(bld, ExtZERO(D))

convert_to_ext(t) == Target("ext", t.a, 0)

\* a + b
add_extension(bld, a, b) ==
  AddOperation(bld, Operation("add", a, b, NoTarget, <<>>))

\* a - b
sub_extension(bld, a, b) ==
  AddOperation(bld, Operation("sub", a, b, NoTarget, <<>>))

\* a * b + c
mul_add_extension(bld, a, b, c) ==
  AddOperation(bld, Operation("mul_add", a, b, c, <<>>))

\* a * b + c, a a base-field target
scalar_mul_add_extension(bld, a, b, c) ==
  mul_add_extension(bld, convert_to_ext(a), b, c)

\* terms folded with add_extension from zero_extension.
RECURSIVE AddManyFrom(_, _, _)
AddManyFrom(p, terms, n) ==
  IF n > Len(terms) THEN p
  ELSE Let1(add_extension(p[1], p[2], terms[n]), LAMBDA q :
         AddManyFrom(q, terms, n + 1))

add_many_extension(D, bld, terms) ==
  Let1(zero_extension(D, bld), LAMBDA p : AddManyFrom(p, terms, 1))

\* One coefficient of a method of the extension algebra: method is the
\* extension method applied to coefficient i of the operands.
CoefficientOp(D, method, bld, a, b, c, i) ==
  CASE method = "zero" -> zero_extension(D, bld)
    [] method = "add" -> add_extension(bld, a[i + 1], b[i + 1])
    [] method = "sub" -> sub_extension(bld, a[i + 1], b[i + 1])
    [] method = "mul_add" -> mul_add_extension(bld, a, b[i + 1], c[i + 1])

\* `for i in 0..D` of the methods of the extension algebra, the coefficients
\* done so far in acc.
RECURSIVE ForCoefficients(_, _, _, _, _, _, _)
ForCoefficients(D, method, bld, a, b, c, acc) ==
  IF Len(acc) = D THEN <<bld, acc>>
  ELSE Let1(CoefficientOp(D, method, bld, a, b, c, Len(acc)), LAMBDA p :
         ForCoefficients(D, method, p[1], a, b, c, Append(acc, p[2])))

zero_ext_algebra(D, bld) ==
  ForCoefficients(D, "zero", bld, <<>>, <<>>, <<>>, <<>>)

add_ext_algebra(D, bld, a, b) ==
  ForCoefficients(D, "add", bld, a, b, <<>>, <<>>)

sub_ext_algebra(D, bld, a, b) ==
  ForCoefficients(D, "sub", bld, a, b, <<>>, <<>>)

\* a * b + c, a an extension target
scalar_mul_add_ext_algebra(D, bld, a, b, c) ==
  ForCoefficients(D, "mul_add", bld, a, b, c, <<>>)

\* builder.add_gate(gate, constants): the row of the new gate.
add_gate(bld, gate) ==
  <<[bld EXCEPT !.gates = Append(bld.gates, gate)], Len(bld.gates)>>

\* builder.connect_extension(src, dst)
connect_extension(bld, src, dst) ==
  [bld EXCEPT !.copies = Append(bld.copies, <<src, dst>>)]

\* ExtensionTarget::from_range(row, range)
from_range(row_, range) == Target("range", row_, range[1])

---------------------------------------------------------------------------
(* The circuits: the gate's constraints and the layer, built with the      *)
(* builder.                                                                *)

\* One pass of the first loop of mds_layer_algebra_circuit: the builder and
\* the four results.
mds_layer_algebra_circuit_block(D, bld, two, four, st, start_index) ==
  Let1(add_ext_algebra(D, bld, st[start_index + 1], st[start_index + 2]),
       LAMBDA t0 :
  Let1(add_ext_algebra(D, t0[1], st[start_index + 3], st[start_index + 4]),
       LAMBDA t1 :
  Let1(scalar_mul_add_ext_algebra(D, t1[1], two, st[start_index + 2], t1[2]),
       LAMBDA t2 :
  Let1(scalar_mul_add_ext_algebra(D, t2[1], two, st[start_index + 4], t0[2]),
       LAMBDA t3 :
  Let1(scalar_mul_add_ext_algebra(D, t3[1], four, t1[2], t3[2]), LAMBDA t4 :
  Let1(scalar_mul_add_ext_algebra(D, t4[1], four, t0[2], t2[2]), LAMBDA t5 :
  Let1(add_ext_algebra(D, t5[1], t3[2], t5[2]), LAMBDA r0 :
  Let1(add_ext_algebra(D, r0[1], t2[2], t4[2]), LAMBDA r2 :
    <<r2[1], <<r0[2], t5[2], r2[2], t4[2]>>>>))))))))

\* The second loop of mds_layer_algebra_circuit from i on.
RECURSIVE mds_layer_algebra_circuit_stored(_, _, _, _, _)
mds_layer_algebra_circuit_stored(D, bld, result, stored, i) ==
  IF i = 4 THEN <<bld, stored>>
  ELSE
    Let1(add_ext_algebra(D, bld, result[i + 1], result[4 + i + 1]),
         LAMBDA s1 :
    Let1(add_ext_algebra(D, s1[1], s1[2], result[8 + i + 1]), LAMBDA s2 :
      mds_layer_algebra_circuit_stored(D, s2[1], result,
                                       [stored EXCEPT ![i + 1] = s2[2]],
                                       i + 1)))

\* The third loop of mds_layer_algebra_circuit from i on.
RECURSIVE mds_layer_algebra_circuit_result(_, _, _, _, _)
mds_layer_algebra_circuit_result(D, bld, result, stored, i) ==
  IF i = 12 THEN <<bld, result>>
  ELSE
    Let1(add_ext_algebra(D, bld, result[i + 1], stored[(i % 4) + 1]),
         LAMBDA r :
      mds_layer_algebra_circuit_result(D, r[1],
                                       [result EXCEPT ![i + 1] = r[2]],
                                       stored, i + 1))

mds_layer_algebra_circuit(D, bld, state_) ==
  Let1(state_, LAMBDA st :
  Let1(zero_ext_algebra(D, bld), LAMBDA z1 :
  Let1(zero_ext_algebra(D, z1[1]), LAMBDA z2 :
  Let1(constant_extension(z2[1], ExtTWO(D)), LAMBDA two :
  Let1(constant_extension(two[1], ext_from_canonical_u8(D, 4)), LAMBDA four :
  Let1(mds_layer_algebra_circuit_block(D, four[1], two[2], four[2], st, 0),
       LAMBDA b0 :
  Let1(mds_layer_algebra_circuit_block(D, b0[1], two[2], four[2], st, 4),
       LAMBDA b1 :
  Let1(mds_layer_algebra_circuit_block(D, b1[1], two[2], four[2], st, 8),
       LAMBDA b2 :
  Let1(mds_layer_algebra_circuit_stored(D, b2[1], b0[2] \o b1[2] \o b2[2],
                                        <<z2[2], z2[2], z2[2], z2[2]>>, 0),
       LAMBDA stored :
    mds_layer_algebra_circuit_result(D, stored[1], b0[2] \o b1[2] \o b2[2],
                                     stored[2], 0))))))))))

\* The flat_map of eval_unfiltered_circuit from lane i on, the targets so
\* far in acc.
RECURSIVE eval_unfiltered_circuit_sub(_, _, _, _, _, _)
eval_unfiltered_circuit_sub(D, bld, local_wires_, computed_outputs, acc, i) ==
  IF i = SPONGE_WIDTH THEN <<bld, acc>>
  ELSE
    LET out == get_local_ext_algebra(D, local_wires_, wires_output(D, i))
        computed_out == computed_outputs[i + 1]
    IN  Let1(sub_ext_algebra(D, bld, out, computed_out), LAMBDA d :
          eval_unfiltered_circuit_sub(D, d[1], local_wires_, computed_outputs,
                                      acc \o d[2], i + 1))

\* vars.local_wires holds num_wires extension targets.
eval_unfiltered_circuit(D, bld, local_wires_) ==
  Let1(local_wires_, LAMBDA lw :
  Let1(Lanes(LAMBDA i : get_local_ext_algebra(D, lw, wires_input(D, i))),
       LAMBDA inputs :
  Let1(mds_layer_algebra_circuit(D, bld, inputs), LAMBDA computed_outputs :
    eval_unfiltered_circuit_sub(D, computed_outputs[1], lw,
                                computed_outputs[2], <<>>, 0))))

\* The first loop of the gate branch of mds_layer_circuit from lane i on.
RECURSIVE mds_layer_circuit_connect(_, _, _, _, _)
mds_layer_circuit_connect(D, bld, st, index, i) ==
  IF i = WIDTH THEN bld
  ELSE LET input_wire == wires_input(D, i)
       IN  mds_layer_circuit_connect(D,
             connect_extension(bld, st[i + 1], from_range(index, input_wire)),
             st, index, i + 1)

\* The pass with `two` and `four` exchanged in t2.
mds_layer_circuit_block_FourInT2(bld, two, four, st, start_index) ==
  Let1(add_extension(bld, st[start_index + 1], st[start_index + 2]),
       LAMBDA t0 :
  Let1(add_extension(t0[1], st[start_index + 3], st[start_index + 4]),
       LAMBDA t1 :
  Let1(scalar_mul_add_extension(t1[1], four, st[start_index + 2], t1[2]),
       LAMBDA t2 :
  Let1(scalar_mul_add_extension(t2[1], two, st[start_index + 4], t0[2]),
       LAMBDA t3 :
  Let1(scalar_mul_add_extension(t3[1], four, t1[2], t3[2]), LAMBDA t4 :
  Let1(scalar_mul_add_extension(t4[1], four, t0[2], t2[2]), LAMBDA t5 :
  Let1(add_extension(t5[1], t3[2], t5[2]), LAMBDA r0 :
  Let1(add_extension(r0[1], t2[2], t4[2]), LAMBDA r2 :
    <<r2[1], <<r0[2], t5[2], r2[2], t4[2]>>>>))))))))

\* One pass of the first loop of the other branch of mds_layer_circuit.
mds_layer_circuit_block(bld, two, four, st, start_index) ==
  Let1(add_extension(bld, st[start_index + 1], st[start_index + 2]),
       LAMBDA t0 :
  Let1(add_extension(t0[1], st[start_index + 3], st[start_index + 4]),
       LAMBDA t1 :
  Let1(scalar_mul_add_extension(t1[1], two, st[start_index + 2], t1[2]),
       LAMBDA t2 :
  Let1(scalar_mul_add_extension(t2[1], two, st[start_index + 4], t0[2]),
       LAMBDA t3 :
  Let1(scalar_mul_add_extension(t3[1], four, t1[2], t3[2]), LAMBDA t4 :
  Let1(scalar_mul_add_extension(t4[1], four, t0[2], t2[2]), LAMBDA t5 :
  Let1(add_extension(t5[1], t3[2], t5[2]), LAMBDA r0 :
  Let1(add_extension(r0[1], t2[2], t4[2]), LAMBDA r2 :
    <<r2[1], <<r0[2], t5[2], r2[2], t4[2]>>>>))))))))

\* The second loop of that branch from i on.
RECURSIVE mds_layer_circuit_stored(_, _, _, _, _)
mds_layer_circuit_stored(D, bld, result, stored, i) ==
  IF i = 4 THEN <<bld, stored>>
  ELSE
    Let1(add_many_extension(D, bld,
           <<result[i + 1], result[4 + i + 1], result[8 + i + 1]>>),
         LAMBDA s :
      mds_layer_circuit_stored(D, s[1], result,
                               [stored EXCEPT ![i + 1] = s[2]], i + 1))

\* The third loop of that branch from i on.
RECURSIVE mds_layer_circuit_result(_, _, _, _)
mds_layer_circuit_result(bld, result, stored, i) ==
  IF i = 12 THEN <<bld, result>>
  ELSE
    Let1(add_extension(bld, result[i + 1], stored[(i % 4) + 1]), LAMBDA r :
      mds_layer_circuit_result(r[1], [result EXCEPT ![i + 1] = r[2]],
                               stored, i + 1))

\* mds_layer_circuit with the gate only for more routed wires than
\* num_wires().
mds_layer_circuit_Greater(D, bld, state_) ==
  Let1(state_, LAMBDA st :
    IF bld.num_routed_wires > num_wires(D)
    THEN
      Let1(add_gate(bld, "PoseidonMdsGate"), LAMBDA g :
        <<mds_layer_circuit_connect(D, g[1], st, g[2], 0),
          Lanes(LAMBDA i : from_range(g[2], wires_output(D, i)))>>)
    ELSE
      Let1(zero_extension(D, bld), LAMBDA z1 :
      Let1(zero_extension(D, z1[1]), LAMBDA z2 :
      Let1(constant(z2[1], TWO), LAMBDA two :
      Let1(constant(two[1], from_canonical_u8(4)), LAMBDA four :
      Let1(mds_layer_circuit_block(four[1], two[2], four[2], st, 0),
           LAMBDA b0 :
      Let1(mds_layer_circuit_block(b0[1], two[2], four[2], st, 4),
           LAMBDA b1 :
      Let1(mds_layer_circuit_block(b1[1], two[2], four[2], st, 8),
           LAMBDA b2 :
      Let1(mds_layer_circuit_stored(D, b2[1], b0[2] \o b1[2] \o b2[2],
                                    <<z2[2], z2[2], z2[2], z2[2]>>, 0),
           LAMBDA stored :
        mds_layer_circuit_result(stored[1], b0[2] \o b1[2] \o b2[2],
                                 stored[2], 0))))))))))

\* The builder afterwards and the 12 targets returned.
mds_layer_circuit(D, bld, state_) ==
  Let1(state_, LAMBDA st :
    IF bld.num_routed_wires >= num_wires(D)
    THEN
      Let1(add_gate(bld, "PoseidonMdsGate"), LAMBDA g :
        <<mds_layer_circuit_connect(D, g[1], st, g[2], 0),
          Lanes(LAMBDA i : from_range(g[2], wires_output(D, i)))>>)
    ELSE
      Let1(zero_extension(D, bld), LAMBDA z1 :
      Let1(zero_extension(D, z1[1]), LAMBDA z2 :
      Let1(constant(z2[1], TWO), LAMBDA two :
      Let1(constant(two[1], from_canonical_u8(4)), LAMBDA four :
      Let1(mds_layer_circuit_block(four[1], two[2], four[2], st, 0),
           LAMBDA b0 :
      Let1(mds_layer_circuit_block(b0[1], two[2], four[2], st, 4),
           LAMBDA b1 :
      Let1(mds_layer_circuit_block(b1[1], two[2], four[2], st, 8),
           LAMBDA b2 :
      Let1(mds_layer_circuit_stored(D, b2[1], b0[2] \o b1[2] \o b2[2],
                                    <<z2[2], z2[2], z2[2], z2[2]>>, 0),
           LAMBDA stored :
        mds_layer_circuit_result(stored[1], b0[2] \o b1[2] \o b2[2],
                                 stored[2], 0))))))))))

---------------------------------------------------------------------------
(* Witness generation: the values of the targets of a circuit.             *)

\* The value of target t of a circuit with the operations nodes: wires holds
\* the values of the "wire" targets, rows the wires of the gates' rows; the
\* value of an operation is computed from the values of its operands.
RECURSIVE TargetValue(_, _, _, _, _)
TargetValue(D, nodes, t, wires, rows) ==
  CASE t.k = "wire" -> wires[t.a + 1]
    [] t.k = "range" ->
         from_basefield_array(D, SubSeq(rows[t.a + 1], t.b + 1, t.b + D))
    [] t.k = "ext" -> from_basefield(D, nodes[t.a].c)
    [] t.k = "node" ->
         LET o == nodes[t.a]
             v(x) == TargetValue(D, nodes, x, wires, rows)
         IN  CASE o.op = "constant_extension" -> o.c
               [] o.op = "add" -> ExtAdd(D, v(o.x), v(o.y))
               [] o.op = "sub" -> ExtSub(D, v(o.x), v(o.y))
               [] o.op = "mul_add" ->
                    ExtAdd(D, ExtMul(D, v(o.x), v(o.y)), v(o.z))

\* The values of the targets ts of the builder's circuit.
TargetValues(D, bld, ts, wires, rows) ==
  Tuple(Len(ts), LAMBDA n : TargetValue(D, bld.nodes, ts[n + 1], wires, rows))

---------------------------------------------------------------------------
(* The linear layers applied to sample states, over the base field and     *)
(* over its extensions.                                                    *)

\* The largest extension degree of the sample states.
MaxLayerD == 4

\* The number of sample states of the layers.
MaxLayerInput == 30

\* Sample states: the unit vectors, the vectors with one lane MAX_U64 (which
\* is not canonical), then the sample inputs of the permutation.
LayerSample(n) ==
  IF n <= 12 THEN Lanes(LAMBDA i : IF i = n - 1 THEN ONE ELSE ZERO)
  ELSE IF n <= 24 THEN Lanes(LAMBDA i : IF i = n - 13 THEN MAX_U64 ELSE ZERO)
  ELSE SampleInput(n - 24)

\* The state embedded into the extension, lane by lane.
EmbedState(D, st) == Lanes(LAMBDA i : from_basefield(D, st[i + 1]))

LayersInit ==
  /\ cfg_D \in {d \in ExtensionDegrees : d <= MaxLayerD}
  /\ lay_state \in {LayerSample(n) : n \in 1..MaxLayerInput}
  /\ lay_mds = <<>>
  /\ lay_mds_field = <<>>
  /\ lay_partial = <<>>
  /\ lay_partial_field = <<>>
  /\ PermIdle /\ GateIdle /\ EvalIdle /\ CircuitIdle /\ SchedIdle

ApplyMdsLayer ==
  /\ lay_mds = <<>>
  /\ lay_mds' = mds_layer(lay_state)
  /\ UNCHANGED <<cfg_D, schedVars, lay_state, lay_mds_field, lay_partial,
                 lay_partial_field>>
  /\ UNCHANGED <<permVars, gateVars, evalVars, circuitVars>>

ApplyMdsLayerField ==
  /\ lay_mds_field = <<>>
  /\ lay_mds_field' = mds_layer_field(cfg_D, EmbedState(cfg_D, lay_state))
  /\ UNCHANGED <<cfg_D, schedVars, lay_state, lay_mds, lay_partial,
               lay_partial_field>>
  /\ UNCHANGED <<permVars, gateVars, evalVars, circuitVars>>

ApplyMdsPartialLayerFast ==
  /\ lay_partial = <<>>
  /\ lay_partial' = mds_partial_layer_fast(lay_state)
  /\ UNCHANGED <<cfg_D, schedVars, lay_state, lay_mds, lay_mds_field,
                 lay_partial_field>>
  /\ UNCHANGED <<permVars, gateVars, evalVars, circuitVars>>

ApplyMdsPartialLayerFastField ==
  /\ lay_partial_field = <<>>
  /\ lay_partial_field' =
       mds_partial_layer_fast_field(cfg_D, EmbedState(cfg_D, lay_state))
  /\ UNCHANGED <<cfg_D, schedVars, lay_state, lay_mds, lay_mds_field, lay_partial>>
  /\ UNCHANGED <<permVars, gateVars, evalVars, circuitVars>>

LayersNext ==
  \/ ApplyMdsLayer
  \/ ApplyMdsLayerField
  \/ ApplyMdsPartialLayerFast
  \/ ApplyMdsPartialLayerFastField

SpecLayers == LayersInit /\ [][LayersNext]_vars

\* The sum f(0) + .. + f(11) in the field.
Sum12(f(_)) ==
  FAdd(f(0), FAdd(f(1), FAdd(f(2), FAdd(f(3), FAdd(f(4), FAdd(f(5),
    FAdd(f(6), FAdd(f(7), FAdd(f(8), FAdd(f(9), FAdd(f(10), f(11))))))))))))

\* Lane i of the product of the matrix with entries M(i, j) and the state s.
DenseLane(M(_, _), s, i) == Sum12(LAMBDA j : FMul(M(i, j), s[j + 1]))

\* C6: on an embedded base-field state the layers over the extension return
\* the embedding of what the layers over the base field return.
C6_FieldLayersAgree ==
  /\ lay_mds_field # <<>> =>
       /\ lay_mds_field = EmbedState(cfg_D, mds_layer(lay_state))
       /\ lay_mds # <<>> => lay_mds_field = EmbedState(cfg_D, lay_mds)
  /\ lay_partial_field # <<>> =>
       /\ lay_partial_field =
            EmbedState(cfg_D, mds_partial_layer_fast(lay_state))
       /\ lay_partial # <<>> =>
            lay_partial_field = EmbedState(cfg_D, lay_partial)

C6_Witness ==
  /\ cfg_D = 2
  /\ lay_state = SampleInput(5)
  /\ lay_mds # <<>> /\ lay_mds_field # <<>>
  /\ lay_partial # <<>> /\ lay_partial_field # <<>>
  /\ lay_mds_field[1][1] # ZERO

\* The dense matrix of the partial layer: 1 off the diagonal and
\* 1 + MDS_MATRIX_DIAG[i] on it.
PartialMatrix(i, j) == IF i = j THEN FAdd(ONE, MDS_MATRIX_DIAG[i + 1]) ELSE ONE

\* C8: lane i of mds_partial_layer_fast(s) is the sum of the 12 lanes of s
\* plus MDS_MATRIX_DIAG[i] * s[i], which is lane i of the product of s with
\* the dense matrix.
C8_PartialLayerDense ==
  lay_partial # <<>> =>
    \A i \in 0..(WIDTH - 1) :
      /\ lay_partial[i + 1] =
           FAdd(Sum12(LAMBDA j : lay_state[j + 1]),
                FMul(MDS_MATRIX_DIAG[i + 1], lay_state[i + 1]))
      /\ lay_partial[i + 1] = DenseLane(PartialMatrix, lay_state, i)

C8_Witness ==
  /\ lay_partial # <<>>
  /\ lay_state = SampleInput(5)
  /\ lay_partial[1] # lay_partial[2]

M4 == <<<<5, 7, 1, 3>>, <<4, 6, 1, 1>>, <<1, 3, 5, 7>>, <<1, 1, 4, 6>>>>

\* The dense matrix of the full layer: 2 * M4 on the diagonal blocks, M4 on
\* the others.
MdsMatrix(i, j) ==
  U64((IF i \div 4 = j \div 4 THEN 2 ELSE 1) * M4[(i % 4) + 1][(j % 4) + 1])

\* (M4 * s_g)[j] for the group g of four lanes.
M4Lane(s, g, j) ==
  FAdd(FAdd(FMul(U64(M4[j + 1][1]), s[4 * g + 1]),
            FMul(U64(M4[j + 1][2]), s[4 * g + 2])),
       FAdd(FMul(U64(M4[j + 1][3]), s[4 * g + 3]),
            FMul(U64(M4[j + 1][4]), s[4 * g + 4])))

\* C9: mds_layer(s) is the product of s with the dense matrix: lane 4g + j is
\* (M4 * s_g)[j] plus the sum over the three groups g' of (M4 * s_g')[j].
C9_MdsLayerDense ==
  lay_mds # <<>> =>
    \A g \in 0..2, j \in 0..3 :
      /\ lay_mds[4 * g + j + 1] = DenseLane(MdsMatrix, lay_state, 4 * g + j)
      /\ lay_mds[4 * g + j + 1] =
           FAdd(M4Lane(lay_state, g, j),
                FAdd(M4Lane(lay_state, 0, j),
                     FAdd(M4Lane(lay_state, 1, j), M4Lane(lay_state, 2, j))))

C9_Witness ==
  /\ lay_mds # <<>>
  /\ lay_state = SampleInput(5)
  /\ lay_mds[1] # ZERO

---------------------------------------------------------------------------
(* The three evaluations of the gate on sample rows.                       *)

\* The largest extension degree of the sample rows.
MaxD == 2

Degrees == {d \in ExtensionDegrees : d <= MaxD}

\* The number of sample rows.
MaxRow == 5

\* Sample rows of num_wires(D) base-field wires: a row whose outputs the
\* generator has set, the zero row, the row of MAX_U64, then scrambled rows.
SampleRow(n, D) ==
  CASE n = 1 ->
         run_once(D, Tuple(num_wires(D), LAMBDA w : Scramble(n, w, 1)))
    [] n = 2 -> Tuple(num_wires(D), LAMBDA w : ZERO)
    [] n = 3 -> Tuple(num_wires(D), LAMBDA w : MAX_U64)
    [] OTHER -> Tuple(num_wires(D), LAMBDA w : Scramble(n, w, 1))

\* Sample scalars of the extension field.
SampleScalars(D) ==
  {from_basefield(D, U64(3)), Coords(D, LAMBDA k : Scramble(7, k, 3))}

\* The row embedded into the extension, wire by wire.
EmbedRow(D, lw) == Tuple(Len(lw), LAMBDA w : from_basefield(D, lw[w + 1]))

\* The row a * r1 + b * r2 of extension-field wires.
CombineRows(D, a, r1_, b, r2_) ==
  Let2(r1_, r2_, LAMBDA r1, r2 :
    Tuple(Len(r1), LAMBDA w :
      ExtAdd(D, ExtMul(D, a, r1[w + 1]), ExtMul(D, b, r2[w + 1]))))

\* The num_routed_wires of CircuitConfig::standard_recursion_config.
StandardRoutedWires == 80

GateInit ==
  /\ cfg_D \in Degrees
  /\ \E n \in 1..MaxRow :
       /\ local_wires = SampleRow(n, cfg_D)
       /\ other_wires = SampleRow(n + 1, cfg_D)
  /\ res_ext = <<>>
  /\ res_lin = <<>>
  /\ res_base = <<>>
  /\ builder = NewBuilder(StandardRoutedWires)
  /\ out_targets = <<>>
  /\ out_values = <<>>
  /\ PermIdle /\ LayIdle /\ CircuitIdle /\ SchedIdle

\* gate.eval_unfiltered_base_one on the row.
EvalUnfilteredBaseOne ==
  /\ res_base = <<>>
  /\ res_base' = eval_unfiltered_base_one(cfg_D, local_wires)
  /\ UNCHANGED <<builder, out_targets, out_values>>
  /\ UNCHANGED <<permVars, cfg_D, schedVars, layVars, gateVars, circuitVars>>

\* gate.eval_unfiltered on the embedded row.
EvalUnfiltered ==
  /\ res_ext = <<>>
  /\ res_ext' = eval_unfiltered(cfg_D, EmbedRow(cfg_D, local_wires))
  /\ UNCHANGED <<local_wires, other_wires, res_lin>>
  /\ UNCHANGED <<permVars, cfg_D, schedVars, layVars, evalVars, circuitVars>>

\* gate.eval_unfiltered on the combination a * local_wires + b * other_wires
\* of the embedded rows.
EvalUnfilteredCombined ==
  /\ res_lin = <<>>
  /\ \E a \in SampleScalars(cfg_D), b \in SampleScalars(cfg_D) :
       res_lin' =
         [a |-> a, b |-> b,
          res |-> eval_unfiltered(cfg_D,
                    CombineRows(cfg_D, a, EmbedRow(cfg_D, local_wires),
                                b, EmbedRow(cfg_D, other_wires)))]
  /\ UNCHANGED <<local_wires, other_wires, res_ext>>
  /\ UNCHANGED <<permVars, cfg_D, schedVars, layVars, evalVars, circuitVars>>

\* gate.eval_unfiltered_circuit on the targets of the row's wires.
EvalUnfilteredCircuit ==
  /\ out_targets = <<>>
  /\ LET lw == Tuple(num_wires(cfg_D), LAMBDA w : Target("wire", w, 0))
     IN  \E r \in {eval_unfiltered_circuit(cfg_D, builder, lw)} :
           /\ builder' = r[1]
           /\ out_targets' = r[2]
  /\ UNCHANGED <<res_base, out_values>>
  /\ UNCHANGED <<permVars, cfg_D, schedVars, layVars, gateVars, circuitVars>>

\* Witness generation with the embedded row assigned to the wires' targets.
GateWitness ==
  /\ out_targets # <<>>
  /\ out_values = <<>>
  /\ out_values' = TargetValues(cfg_D, builder, out_targets,
                                EmbedRow(cfg_D, local_wires), <<>>)
  /\ UNCHANGED <<res_base, builder, out_targets>>
  /\ UNCHANGED <<permVars, cfg_D, schedVars, layVars, gateVars, circuitVars>>

GateNext ==
  \/ EvalUnfilteredBaseOne
  \/ EvalUnfiltered
  \/ EvalUnfilteredCombined
  \/ EvalUnfilteredCircuit
  \/ GateWitness

SpecGate == GateInit /\ [][GateNext]_vars

\* The residuals of eval_unfiltered_base_one embedded into the extension.
EmbedResiduals(D, r) == Tuple(Len(r), LAMBDA n : from_basefield(D, r[n + 1]))

\* C3: on every row the residuals of eval_unfiltered_base_one, embedded,
\* those of eval_unfiltered on the embedded row and the values of the targets
\* of eval_unfiltered_circuit with the row assigned are equal, in order.
C3_EvaluationsAgree ==
  /\ (res_base # <<>> /\ res_ext # <<>>) =>
       res_ext = EmbedResiduals(cfg_D, res_base)
  /\ (res_ext # <<>> /\ out_values # <<>>) => out_values = res_ext
  /\ (res_base # <<>> /\ out_values # <<>>) =>
       out_values = EmbedResiduals(cfg_D, res_base)

C3_Witness ==
  /\ cfg_D = 2
  /\ res_base # <<>> /\ res_ext # <<>> /\ out_values # <<>>
  /\ \E n \in 1..Len(res_base) : res_base[n] # ZERO

\* C4: each evaluation produces num_constraints() = SPONGE_WIDTH * D
\* residuals, D for each of the 12 lanes.
C4_ConstraintCount ==
  /\ num_constraints(cfg_D) = SPONGE_WIDTH * cfg_D
  /\ num_constraints(cfg_D) = 12 * cfg_D
  /\ res_base # <<>> => Len(res_base) = num_constraints(cfg_D)
  /\ res_ext # <<>> => Len(res_ext) = num_constraints(cfg_D)
  /\ res_lin # <<>> => Len(res_lin.res) = num_constraints(cfg_D)
  /\ out_targets # <<>> => Len(out_targets) = num_constraints(cfg_D)
  /\ out_values # <<>> => Len(out_values) = num_constraints(cfg_D)

C4_Witness ==
  /\ cfg_D = 2
  /\ res_base # <<>> /\ res_ext # <<>> /\ out_values # <<>>
  /\ Len(out_targets) = 24

\* The operation of the builder that made target t.
OperationOf(bld, t) ==
  IF t.k = "node" THEN bld.nodes[t.a].op ELSE t.k

\* C5: the residuals are linear in the row: eval_unfiltered of
\* a * r1 + b * r2 is a times that of r1 plus b times that of r2, the only
\* products in the circuit are by a constant, and degree() = 1.
C5_ResidualsLinear ==
  /\ degree = 1
  /\ res_lin # <<>> =>
       Let2(eval_unfiltered(cfg_D, EmbedRow(cfg_D, local_wires)),
            eval_unfiltered(cfg_D, EmbedRow(cfg_D, other_wires)),
            LAMBDA f1, f2 :
         \A n \in 1..Len(f1) :
           res_lin.res[n] =
             ExtAdd(cfg_D, ExtMul(cfg_D, res_lin.a, f1[n]),
                    ExtMul(cfg_D, res_lin.b, f2[n])))
  /\ out_targets # <<>> =>
       \A n \in 1..Len(builder.nodes) :
         LET o == builder.nodes[n]
         IN  /\ o.op \in {"constant_extension", "add", "sub", "mul_add"}
             /\ o.op = "mul_add" =>
                  OperationOf(builder, o.x) = "constant_extension"
             /\ o.op = "constant_extension" =>
                  o.c \in {ExtZERO(cfg_D), ExtTWO(cfg_D),
                           ext_from_canonical_u8(cfg_D, 4)}

C5_Witness ==
  /\ cfg_D = 2
  /\ res_lin # <<>>
  /\ res_lin.a # res_lin.b
  /\ out_targets # <<>>
  /\ \E n \in 1..Len(res_lin.res) : res_lin.res[n] # ExtZERO(2)

\* The wires of the range r.
WiresOf(r) == {w \in 0..(r[2] - 1) : r[1] <= w}

\* C10: the 24 ranges wires_input(i) and wires_output(i) have D wires each,
\* are pairwise disjoint, cover exactly the wires 0 .. num_wires() - 1 with
\* num_wires() = 2 * D * SPONGE_WIDTH, and the inputs come before the
\* outputs.
C10_WireLayout ==
  LET lanes == 0..(SPONGE_WIDTH - 1)
      ranges == [n \in 0..(2 * SPONGE_WIDTH - 1) |->
                   IF n < SPONGE_WIDTH THEN wires_input(cfg_D, n)
                   ELSE wires_output(cfg_D, n - SPONGE_WIDTH)]
  IN  /\ cfg_D >= 1
      /\ num_wires(cfg_D) = 2 * cfg_D * SPONGE_WIDTH
      /\ \A n \in DOMAIN ranges : Cardinality(WiresOf(ranges[n])) = cfg_D
      /\ \A n1, n2 \in DOMAIN ranges :
           n1 # n2 => WiresOf(ranges[n1]) \cap WiresOf(ranges[n2]) = {}
      /\ UNION {WiresOf(ranges[n]) : n \in DOMAIN ranges}
           = 0..(num_wires(cfg_D) - 1)
      /\ \A i \in lanes, j \in lanes :
           wires_input(cfg_D, i)[2] <= wires_output(cfg_D, j)[1]
      /\ local_wires # <<>> => Len(local_wires) = num_wires(cfg_D)

C10_Witness ==
  /\ cfg_D = 2
  /\ Len(local_wires) = 48
  /\ res_base # <<>>

---------------------------------------------------------------------------
(* mds_layer_circuit on sample states, and the witness of its circuit.     *)

\* The values of num_routed_wires tried: around num_wires() of the degrees,
\* and the standard one.
RoutedWires == {23, 24, 47, 48, StandardRoutedWires}

\* No wire of the row has a value.
UnsetRow(D) == Tuple(num_wires(D), LAMBDA w : <<>>)

\* The D wires of the range r of the row.
RangeOf(row_, r) == SubSeq(row_, r[1] + 1, r[2])

InputsSet(D, row_) ==
  \A i \in 0..(SPONGE_WIDTH - 1) :
    \A v \in {RangeOf(row_, wires_input(D, i))[k] : k \in 1..D} : v # <<>>

OutputsSet(D, row_) ==
  \A i \in 0..(SPONGE_WIDTH - 1) :
    \A v \in {RangeOf(row_, wires_output(D, i))[k] : k \in 1..D} : v # <<>>

OutputsUnset(D, row_) ==
  \A i \in 0..(SPONGE_WIDTH - 1) :
    \A v \in {RangeOf(row_, wires_output(D, i))[k] : k \in 1..D} : v = <<>>

CircuitInit ==
  /\ cfg_D \in Degrees
  /\ circuit_state \in {SampleInput(n) : n \in 1..MaxInput}
  /\ \E n \in RoutedWires : builder = NewBuilder(n)
  /\ out_targets = <<>>
  /\ out_values = <<>>
  /\ res_base = <<>>
  /\ witness_rows = <<>>
  /\ PermIdle /\ LayIdle /\ GateIdle /\ SchedIdle

\* F::mds_layer_circuit(builder, state), state the targets of the 12 lanes.
MdsLayerCircuit ==
  /\ out_targets = <<>>
  /\ \E r \in {mds_layer_circuit(cfg_D, builder,
                                  Lanes(LAMBDA i : Target("wire", i, 0)))} :
       /\ builder' = r[1]
       /\ out_targets' = r[2]
       /\ witness_rows' = Tuple(Len(r[1].gates), LAMBDA g : UnsetRow(cfg_D))
  /\ UNCHANGED <<res_base, out_values, circuit_state>>
  /\ UNCHANGED <<permVars, cfg_D, schedVars, layVars, gateVars>>

\* The wires of a row after the copy constraints to it are followed: the
\* wires of a range a target is connected to take the target's value.
CopiedRow(D, copies, vals, g, row_) ==
  Tuple(Len(row_), LAMBDA w :
    LET cs == {n \in 1..Len(copies) :
                 /\ copies[n][2].k = "range"
                 /\ copies[n][2].a = g
                 /\ copies[n][2].b <= w
                 /\ w < copies[n][2].b + D}
    IN  IF cs = {} THEN row_[w + 1]
        ELSE LET c == copies[CHOOSE n \in cs : TRUE]
             IN  vals[c[1].a + 1][w - c[2].b + 1])

\* Witness generation follows the copy constraints into the gates' rows.
CopyConstraints ==
  /\ witness_rows # <<>>
  /\ ~InputsSet(cfg_D, witness_rows[1])
  /\ witness_rows' =
       Tuple(Len(witness_rows), LAMBDA g :
         CopiedRow(cfg_D, builder.copies,
                   EmbedState(cfg_D, circuit_state), g, witness_rows[g + 1]))
  /\ UNCHANGED <<evalVars, circuit_state>>
  /\ UNCHANGED <<permVars, cfg_D, schedVars, layVars, gateVars>>

\* The gate's generator runs once its dependencies, the input wires, are
\* set.
RunGenerator ==
  /\ witness_rows # <<>>
  /\ InputsSet(cfg_D, witness_rows[1])
  /\ OutputsUnset(cfg_D, witness_rows[1])
  /\ witness_rows' =
       Tuple(Len(witness_rows), LAMBDA g :
         run_once(cfg_D, witness_rows[g + 1]))
  /\ UNCHANGED <<evalVars, circuit_state>>
  /\ UNCHANGED <<permVars, cfg_D, schedVars, layVars, gateVars>>

\* A witness whose output wires are not the generator's: one output wire is
\* one more.
ForgeOutputs ==
  /\ witness_rows # <<>>
  /\ InputsSet(cfg_D, witness_rows[1])
  /\ OutputsUnset(cfg_D, witness_rows[1])
  /\ \E i \in {0, SPONGE_WIDTH - 1}, k \in {1, cfg_D} :
       LET w == wires_output(cfg_D, i)[1] + k
       IN  witness_rows' =
             Tuple(Len(witness_rows), LAMBDA g :
               Let1(run_once(cfg_D, witness_rows[g + 1]), LAMBDA r :
                 [r EXCEPT ![w] = FAdd(r[w], ONE)]))
  /\ UNCHANGED <<evalVars, circuit_state>>
  /\ UNCHANGED <<permVars, cfg_D, schedVars, layVars, gateVars>>

\* The gate's constraints are evaluated on its row.
CheckConstraints ==
  /\ witness_rows # <<>>
  /\ OutputsSet(cfg_D, witness_rows[1])
  /\ res_base = <<>>
  /\ res_base' = eval_unfiltered_base_one(cfg_D, witness_rows[1])
  /\ UNCHANGED <<builder, out_targets, out_values, circuitVars>>
  /\ UNCHANGED <<permVars, cfg_D, schedVars, layVars, gateVars>>

\* Witness generation gives the returned targets their values.
CircuitWitness ==
  /\ out_targets # <<>>
  /\ out_values = <<>>
  /\ witness_rows # <<>> => OutputsSet(cfg_D, witness_rows[1])
  /\ out_values' = TargetValues(cfg_D, builder, out_targets,
                                EmbedState(cfg_D, circuit_state),
                                witness_rows)
  /\ UNCHANGED <<res_base, builder, out_targets, circuitVars>>
  /\ UNCHANGED <<permVars, cfg_D, schedVars, layVars, gateVars>>

CircuitNext ==
  \/ MdsLayerCircuit
  \/ CopyConstraints
  \/ RunGenerator
  \/ ForgeOutputs
  \/ CheckConstraints
  \/ CircuitWitness

SpecCircuit == CircuitInit /\ [][CircuitNext]_vars

AllZero(r) == \A n \in 1..Len(r) : r[n] = ZERO

\* C7: the targets mds_layer_circuit returns take the values of mds_layer of
\* the state: always in the branch of add_extension and
\* scalar_mul_add_extension, and in the branch of the gate whenever the
\* gate's constraints hold of its row, which they do for the row the
\* generator fills.
C7_CircuitIsMdsLayer ==
  LET expected == EmbedState(cfg_D, mds_layer(circuit_state))
  IN  /\ (out_values # <<>> /\ builder.gates = <<>>) =>
           out_values = Tuple(WIDTH, LAMBDA i : expected[i + 1])
      /\ (out_values # <<>> /\ builder.gates # <<>> /\ res_base # <<>>) =>
           (AllZero(res_base)
              <=> out_values = Tuple(WIDTH, LAMBDA i : expected[i + 1]))

C7_Witness ==
  /\ cfg_D = 2
  /\ builder.gates # <<>>
  /\ out_values # <<>>
  /\ res_base # <<>>
  /\ AllZero(res_base)
  /\ circuit_state = SampleInput(5)

---------------------------------------------------------------------------
(* The witness scheduler and the generator of the gate's rows.  The        *)
(* partition witness holds, by row, the value of every wire, <<>> for a    *)
(* wire not assigned yet.  A wire target is a record [row, column].        *)

\* Target::wires_from_range(row, range): the wire targets of the range.
wires_from_range(row_, range) ==
  [n \in 1..(range[2] - range[1]) |->
     [row |-> row_, column |-> range[1] + n - 1]]

\* The dependencies declared as the wires of the output ranges.
dependencies_Outputs(D, row_) ==
  FlatMap(Lanes(LAMBDA i : wires_from_range(row_, wires_output(D, i))))

\* The dependencies declared for 0..SPONGE_WIDTH - 1 only.
dependencies_ElevenLanes(D, row_) ==
  SubSeq(FlatMap(Lanes(LAMBDA i : wires_from_range(row_, wires_input(D, i)))),
         1, (SPONGE_WIDTH - 1) * D)

\* PoseidonMdsGenerator::dependencies of the generator of the row.
dependencies(D, row_) ==
  FlatMap(Lanes(LAMBDA i : wires_from_range(row_, wires_input(D, i))))

\* ExtensionTarget::to_target_array: the D wire targets of an extension
\* target from_range(row, range).
to_target_array(D, et) ==
  [k \in 1..D |-> [row |-> et.a, column |-> et.b + k - 1]]

\* Witness::try_get_target: the value of the wire, <<>> when it has none.
try_get_target(pw, t) == pw[t.row + 1][t.column + 1]

\* Witness::contains_all.
contains_all(pw, targets) ==
  \A n \in 1..Len(targets) : try_get_target(pw, targets[n]) # <<>>

\* Witness::get_extension_target.
get_extension_target(D, pw, et) ==
  from_basefield_array(D,
    [k \in 1..D |-> try_get_target(pw, to_target_array(D, et)[k])])

\* GeneratedValues::set_extension_target: the pairs <<target, value>> the
\* call appends to the buffer.
set_extension_target(D, et, value) ==
  [k \in 1..D |-> <<to_target_array(D, et)[k], to_basefield_array(value)[k]>>]

\* The wire targets run_once reads with get_local_ext.
run_once_reads(D, row_) ==
  FlatMap(Lanes(LAMBDA i :
    to_target_array(D, from_range(row_, wires_input(D, i)))))

\* run_once with the outputs of the fast partial layer.
run_once_out_buffer_Partial(D, row_, pw_) ==
  Let1(pw_, LAMBDA pw :
    IF ~contains_all(pw, run_once_reads(D, row_)) THEN "panic"
    ELSE
      Let1(Lanes(LAMBDA i :
             get_extension_target(D, pw, from_range(row_, wires_input(D, i)))),
           LAMBDA inputs :
      Let1(mds_partial_layer_fast_field(D, inputs), LAMBDA outputs :
        FlatMap(Lanes(LAMBDA i :
          set_extension_target(D, from_range(row_, wires_output(D, i)),
                               outputs[i + 1]))))))

\* run_once with output i written to the wires of lane i + 1.
run_once_out_buffer_NextLane(D, row_, pw_) ==
  Let1(pw_, LAMBDA pw :
    IF ~contains_all(pw, run_once_reads(D, row_)) THEN "panic"
    ELSE
      Let1(Lanes(LAMBDA i :
             get_extension_target(D, pw, from_range(row_, wires_input(D, i)))),
           LAMBDA inputs :
      Let1(mds_layer_field(D, inputs), LAMBDA outputs :
        FlatMap(Lanes(LAMBDA i :
          set_extension_target(D,
            from_range(row_, wires_output(D, (i + 1) % SPONGE_WIDTH)),
            outputs[i + 1]))))))

\* run_once with the outputs written to the wires of row 0.
run_once_out_buffer_RowZero(D, row_, pw_) ==
  Let1(pw_, LAMBDA pw :
    IF ~contains_all(pw, run_once_reads(D, row_)) THEN "panic"
    ELSE
      Let1(Lanes(LAMBDA i :
             get_extension_target(D, pw, from_range(row_, wires_input(D, i)))),
           LAMBDA inputs :
      Let1(mds_layer_field(D, inputs), LAMBDA outputs :
        FlatMap(Lanes(LAMBDA i :
          set_extension_target(D, from_range(0, wires_output(D, i)),
                               outputs[i + 1]))))))

\* run_once with the outputs written to the input ranges.
run_once_out_buffer_IntoInputs(D, row_, pw_) ==
  Let1(pw_, LAMBDA pw :
    IF ~contains_all(pw, run_once_reads(D, row_)) THEN "panic"
    ELSE
      Let1(Lanes(LAMBDA i :
             get_extension_target(D, pw, from_range(row_, wires_input(D, i)))),
           LAMBDA inputs :
      Let1(mds_layer_field(D, inputs), LAMBDA outputs :
        FlatMap(Lanes(LAMBDA i :
          set_extension_target(D, from_range(row_, wires_input(D, i)),
                               outputs[i + 1]))))))

\* run_once with each output added to the value its wires hold already.
run_once_out_buffer_Accumulating(D, row_, pw_) ==
  Let1(pw_, LAMBDA pw :
    IF ~contains_all(pw, run_once_reads(D, row_)) THEN "panic"
    ELSE
      Let1(Lanes(LAMBDA i :
             get_extension_target(D, pw, from_range(row_, wires_input(D, i)))),
           LAMBDA inputs :
      Let1(mds_layer_field(D, inputs), LAMBDA outputs :
        FlatMap(Lanes(LAMBDA i :
          LET et == from_range(row_, wires_output(D, i))
              held == contains_all(pw, to_target_array(D, et))
          IN  set_extension_target(D, et,
                IF held
                  THEN ExtAdd(D, get_extension_target(D, pw, et),
                              outputs[i + 1])
                  ELSE outputs[i + 1]))))))

\* PoseidonMdsGenerator::run_once of the generator of the row: the pairs
\* <<target, value>> it leaves in out_buffer, the D wires of wires_output(i)
\* with lane i of mds_layer_field of the inputs.  Reading a wire that has no
\* value panics.
run_once_out_buffer(D, row_, pw_) ==
  Let1(pw_, LAMBDA pw :
    IF ~contains_all(pw, run_once_reads(D, row_)) THEN "panic"
    ELSE
      Let1(Lanes(LAMBDA i :
             get_extension_target(D, pw, from_range(row_, wires_input(D, i)))),
           LAMBDA inputs :
      Let1(mds_layer_field(D, inputs), LAMBDA outputs :
        FlatMap(Lanes(LAMBDA i :
          set_extension_target(D, from_range(row_, wires_output(D, i)),
                               outputs[i + 1]))))))

\* SimpleGeneratorAdapter::run: run_once when the witness contains all the
\* dependencies; <<finished, out_buffer>>.
adapter_run(D, row_, pw) ==
  IF contains_all(pw, dependencies(D, row_))
    THEN <<TRUE, run_once_out_buffer(D, row_, pw)>>
    ELSE <<FALSE, <<>>>>

\* The pairs of the buffer that set a wire to a value other than the one it
\* has.
Conflicts(pw, buffer) ==
  {n \in 1..Len(buffer) :
     /\ try_get_target(pw, buffer[n][1]) # <<>>
     /\ ~FEq(try_get_target(pw, buffer[n][1]), buffer[n][2])}

\* The witness after set_target of every pair of the buffer: a wire without
\* a value takes the pair's, a wire with a value keeps it.
extend(pw_, buffer_) ==
  Let2(pw_, buffer_, LAMBDA pw, buffer :
    Tuple(Len(pw), LAMBDA g :
      Tuple(Len(pw[g + 1]), LAMBDA w :
        LET ns == {n \in 1..Len(buffer) :
                     buffer[n][1] = [row |-> g, column |-> w]}
        IN  IF ns = {} \/ pw[g + 1][w + 1] # <<>> THEN pw[g + 1][w + 1]
            ELSE buffer[CHOOSE n \in ns : \A n2 \in ns : n <= n2][2])))

\* The largest number of rows of the gate.
MaxGateRows == 2

\* The largest number of times the scheduler is made to run one generator.
MaxRuns == 2

\* The value the producer of input wire w of row g gives to it.
InputValue(g, w) ==
  IF g = 0 /\ w % 5 = 0 THEN MAX_U64 ELSE Scramble(g + 4, w, 1)

\* The largest number of input wires of a row without a value at the start.
MaxUnassigned == 6

\* Row g at the start: its input wires have their values but for the
\* MaxUnassigned that are assigned last, and no output wire has one.
InitialRow(D, g) ==
  Tuple(num_wires(D), LAMBDA w :
    IF /\ w < SPONGE_WIDTH * D
       /\ IF g % 2 = 0 THEN w < SPONGE_WIDTH * D - MaxUnassigned
          ELSE w >= MaxUnassigned
      THEN InputValue(g, w)
      ELSE <<>>)

\* The rows of the witness.
GateRows == 0..(Len(partition_witness) - 1)

\* The input wires of the row that have no value.
UnassignedInputs(D, g) ==
  {w \in 0..(SPONGE_WIDTH * D - 1) : partition_witness[g + 1][w + 1] = <<>>}

SchedulerInit ==
  /\ cfg_D \in Degrees
  /\ \E rows \in 1..MaxGateRows :
       /\ partition_witness = Tuple(rows, LAMBDA g : InitialRow(cfg_D, g))
       /\ out_buffers = Tuple(rows, LAMBDA g : <<>>)
       /\ generator_is_expired = Tuple(rows, LAMBDA g : FALSE)
       /\ run_count = Tuple(rows, LAMBDA g : 0)
  /\ generator_panicked = FALSE
  /\ PermIdle /\ LayIdle /\ GateIdle /\ EvalIdle /\ CircuitIdle

\* The producer of an input wire of row g assigns it: the wires of the even
\* rows are assigned from the first, those of the odd rows from the last.
AssignInput(g) ==
  /\ ~generator_panicked
  /\ UnassignedInputs(cfg_D, g) # {}
  /\ LET ws == UnassignedInputs(cfg_D, g)
         w == IF g % 2 = 0 THEN CHOOSE x \in ws : \A y \in ws : x <= y
              ELSE CHOOSE x \in ws : \A y \in ws : x >= y
     IN  partition_witness' =
           [partition_witness EXCEPT ![g + 1][w + 1] = InputValue(g, w)]
  /\ UNCHANGED <<out_buffers, generator_is_expired, run_count,
                 generator_panicked>>
  /\ UNCHANGED <<permVars, cfg_D, layVars, gateVars, evalVars, circuitVars>>

\* The scheduler runs the generator of row g: a generator that has finished
\* is run again when its row is scheduled again.
RunAdapter(g) ==
  /\ ~generator_panicked
  /\ out_buffers[g + 1] = <<>>
  /\ run_count[g + 1] < MaxRuns
  /\ \E r \in {adapter_run(cfg_D, g, partition_witness)} :
       IF ~r[1]
         THEN UNCHANGED schedVars
         ELSE /\ run_count' = [run_count EXCEPT ![g + 1] = @ + 1]
              /\ generator_is_expired' =
                   [generator_is_expired EXCEPT ![g + 1] = TRUE]
              /\ IF r[2] = "panic"
                   THEN /\ generator_panicked' = TRUE
                        /\ UNCHANGED out_buffers
                   ELSE /\ out_buffers' = [out_buffers EXCEPT ![g + 1] = r[2]]
                        /\ UNCHANGED generator_panicked
              /\ UNCHANGED partition_witness
  /\ UNCHANGED <<permVars, cfg_D, layVars, gateVars, evalVars, circuitVars>>

\* The scheduler merges the buffer of the generator of row g into the
\* witness: set_target of every pair, which panics on a second value.
MergeBuffer(g) ==
  /\ ~generator_panicked
  /\ out_buffers[g + 1] # <<>>
  /\ partition_witness' = extend(partition_witness, out_buffers[g + 1])
  /\ generator_panicked' = (Conflicts(partition_witness, out_buffers[g + 1]) # {})
  /\ out_buffers' = [out_buffers EXCEPT ![g + 1] = <<>>]
  /\ UNCHANGED <<generator_is_expired, run_count>>
  /\ UNCHANGED <<permVars, cfg_D, layVars, gateVars, evalVars, circuitVars>>

SchedulerNext ==
  \/ \E g \in GateRows : AssignInput(g)
  \/ \E g \in GateRows : RunAdapter(g)
  \/ \E g \in GateRows : MergeBuffer(g)

SpecScheduler == SchedulerInit /\ [][SchedulerNext]_vars

\* The targets of a sequence of targets, as a set.
TargetSet(ts) == {ts[n] : n \in 1..Len(ts)}

\* C11: the dependencies the generator of row g declares are exactly the
\* SPONGE_WIDTH * D input wires of row g, wires 0 .. 12 * D - 1, each once:
\* none of them is an output wire, none is a wire of another row, and every
\* wire run_once reads is among them.
C11_DependenciesAreInputs ==
  \A g \in GateRows :
    LET deps == dependencies(cfg_D, g)
        reads == run_once_reads(cfg_D, g)
    IN  /\ Len(deps) = SPONGE_WIDTH * cfg_D
        /\ TargetSet(deps) =
             {[row |-> g, column |-> w] : w \in 0..(12 * cfg_D - 1)}
        /\ \A t \in TargetSet(deps) :
             /\ t.row = g
             /\ t.column \notin (12 * cfg_D)..(24 * cfg_D - 1)
        /\ TargetSet(reads) \subseteq TargetSet(deps)

\* The generator of the second of two rows has run, with D = 2.
C11_Witness ==
  /\ cfg_D = 2
  /\ Len(partition_witness) = 2
  /\ run_count[2] >= 1
  /\ ~generator_panicked

\* The inputs of row g: the 12 extension-field values of its input ranges.
RowInputs(D, g) ==
  Lanes(LAMBDA i :
    get_extension_target(D, partition_witness,
                         from_range(g, wires_input(D, i))))

\* The base-field state of the coefficients k of 12 extension-field values.
CoefficientState(x, k) == Lanes(LAMBDA i : x[i + 1][k])

\* The buffer holds, for lane i and coefficient k, wire (12 + i) * D + k - 1
\* of row g with the value of layer(i, k).
BufferIs(D, g, buffer, layer(_, _)) ==
  /\ Len(buffer) = SPONGE_WIDTH * D
  /\ \A i \in 0..(SPONGE_WIDTH - 1), k \in 1..D :
       buffer[i * D + k] =
         <<[row |-> g, column |-> (SPONGE_WIDTH + i) * D + k - 1],
           layer(i, k)>>

\* C12 as amended: when run, the generator computes the 12 output values
\* with mds_layer_field, the extension-field form of the full MDS layer:
\* coefficient by coefficient the outputs are mds_layer of the coefficients
\* of the row's inputs.  It writes them to the 12 output wire blocks.
C12_GeneratorIsMdsLayer ==
  \A g \in GateRows :
    out_buffers[g + 1] # <<>> =>
      Let1(RowInputs(cfg_D, g), LAMBDA inputs :
      Let1([k \in 1..cfg_D |-> mds_layer(CoefficientState(inputs, k))],
           LAMBDA outputs :
        BufferIs(cfg_D, g, out_buffers[g + 1],
                 LAMBDA i, k : outputs[k][i + 1])))

\* The generator of the second of two rows has left its values in the
\* buffer, with D = 2.
C12_Witness ==
  /\ cfg_D = 2
  /\ Len(partition_witness) = 2
  /\ out_buffers[2] # <<>>

\* C12 as stated: when run, the generator computes the 12 output values
\* with the fast partial layer of the base field, out[i] = sum +
\* diagonal[i] * in[i], applied to the row's input values, and writes them to
\* the 12 output wire blocks.
C12_GeneratorIsFastPartialLayer ==
  \A g \in GateRows :
    out_buffers[g + 1] # <<>> =>
      Let1(RowInputs(cfg_D, g), LAMBDA inputs :
      Let1([k \in 1..cfg_D |->
              mds_partial_layer_fast(CoefficientState(inputs, k))],
           LAMBDA outputs :
        BufferIs(cfg_D, g, out_buffers[g + 1],
                 LAMBDA i, k : outputs[k][i + 1])))

\* Every one of the 12 * D input wires of row g has a value.
InputsAssigned(D, g) == UnassignedInputs(D, g) = {}

\* C13: in every run of the scheduler the generator of a row executes only
\* in a state where all the 12 * D input wires of its row are assigned,
\* never while one of them is unassigned, and the scheduler finds it ready
\* to run in every state where they all are, so from the state in which the
\* last of them is assigned.
C13_RunsWhenInputsAssigned ==
  /\ [](\A g \in GateRows :
          InputsAssigned(cfg_D, g)
            <=> adapter_run(cfg_D, g, partition_witness)[1])
  /\ [][\A g \in GateRows :
          run_count'[g + 1] > run_count[g + 1] => InputsAssigned(cfg_D, g)]_vars

\* The generator of the first of two rows has run while the second row
\* still waits for the last of its input wires, with D = 2.
C13_Witness ==
  /\ cfg_D = 2
  /\ Len(partition_witness) = 2
  /\ run_count = <<1, 0>>
  /\ UnassignedInputs(cfg_D, 1) = {0}

\* The row with its input wires only: no output wire has a value.
InputsOf(D, row_) ==
  Tuple(Len(row_), LAMBDA w :
    IF w < SPONGE_WIDTH * D THEN row_[w + 1] ELSE <<>>)

\* The assignment the scheduler is to end in, as a function of the input
\* wires alone: a row whose inputs are all assigned holds the outputs of its
\* generator, every other row has no output.
FinalAssignment(D, pw) ==
  Tuple(Len(pw), LAMBDA g :
    Let1(InputsOf(D, pw[g + 1]), LAMBDA inputs :
      IF InputsSet(D, inputs) THEN run_once(D, inputs) ELSE inputs))

\* No generator is runnable and no buffer waits to be merged.
Quiescent ==
  \A g \in GateRows :
    /\ out_buffers[g + 1] = <<>>
    /\ InputsAssigned(cfg_D, g) => generator_is_expired[g + 1]

\* C14: whatever rows there are and whatever input wires are assigned, every
\* order in which the scheduler runs the runnable generators and merges
\* their buffers, interleaved in any way, ends in the same assignment: no
\* order makes a generator panic, and once nothing is left to run the
\* witness is the assignment the input wires determine.
C14_OrderIndependent ==
  /\ ~generator_panicked
  /\ Quiescent =>
       partition_witness = FinalAssignment(cfg_D, partition_witness)

\* Both generators of two rows have run and nothing is left to run, with
\* D = 2.
C14_Witness ==
  /\ cfg_D = 2
  /\ Len(partition_witness) = 2
  /\ Quiescent
  /\ run_count = <<1, 1>>

\* The wires the buffer of the generator of row g is to set.
WrittenBy(g) == {out_buffers[g + 1][n][1] : n \in 1..Len(out_buffers[g + 1])}

\* The output wires of row g: wires 12 * D .. 24 * D - 1.
OutputWires(D, g) ==
  {[row |-> g, column |-> w] : w \in (12 * D)..(24 * D - 1)}

\* C15: running the generator of row g writes only the 12 output wire
\* blocks of row g, wires 12 * D .. 24 * D - 1 of that row, and all of them:
\* merging its buffer leaves the input wires of row g and every wire of every
\* other row unchanged, and the generators of different rows write disjoint
\* sets of wires.
C15_WritesOwnOutputsOnly ==
  /\ [](\A g \in GateRows :
          /\ out_buffers[g + 1] # <<>> => WrittenBy(g) = OutputWires(cfg_D, g)
          /\ \A h \in GateRows \ {g} : WrittenBy(g) \cap WrittenBy(h) = {})
  /\ [][\A g \in GateRows :
          (out_buffers[g + 1] # <<>> /\ out_buffers'[g + 1] = <<>>) =>
            \A h \in GateRows, w \in 0..(num_wires(cfg_D) - 1) :
              [row |-> h, column |-> w] \notin OutputWires(cfg_D, g) =>
                partition_witness'[h + 1][w + 1]
                  = partition_witness[h + 1][w + 1]]_vars

\* The buffer of the generator of the first of two rows has been merged:
\* its outputs are assigned, its inputs are as they were assigned, and the
\* second row, whose generator has filled its buffer, has no output yet,
\* with D = 2.
C15_Witness ==
  /\ cfg_D = 2
  /\ Len(partition_witness) = 2
  /\ OutputsSet(cfg_D, partition_witness[1])
  /\ \A w \in 0..(12 * cfg_D - 1) : partition_witness[1][w + 1] = InputValue(0, w)
  /\ out_buffers[1] = <<>>
  /\ out_buffers[2] # <<>>
  /\ OutputsUnset(cfg_D, partition_witness[2])

\* C16: the generator run again on a row whose input wires hold the same
\* values writes the same output values: no value in a buffer differs from
\* the value its wire holds already and no merge panics, so in every
\* reachable state of the scheduler a wire that has a value never changes
\* to another one.
C16_WriteOnce ==
  /\ [](/\ ~generator_panicked
        /\ \A g \in GateRows :
             Conflicts(partition_witness, out_buffers[g + 1]) = {})
  /\ [][\A g \in GateRows, w \in 0..(num_wires(cfg_D) - 1) :
          partition_witness[g + 1][w + 1] # <<>> =>
            partition_witness'[g + 1][w + 1]
              = partition_witness[g + 1][w + 1]]_vars

\* The generator of the first row has run a second time, on the row that
\* holds the outputs of its first run, and its buffer waits to be merged,
\* with D = 2.
C16_Witness ==
  /\ cfg_D = 2
  /\ run_count[1] = 2
  /\ out_buffers[1] # <<>>
  /\ OutputsSet(cfg_D, partition_witness[1])

---------------------------------------------------------------------------
(* The test vectors of the permutation.                                    *)

\* The expected output of the all-zero state.
ZeroStateOutput ==
  <<H(\h40e4, \hc449, \h0284, \h40b0), H(\h8d52, \h33d4, \he1ff, \h2fa3),
    H(\hd880, \h9d1a, \hd0ac, \h1e59), H(\h5b9f, \h29d2, \hbf3a, \h7634),
    H(\hb652, \h33ad, \h9dac, \h1203), H(\h7ad0, \h0f99, \h50e4, \hcac3),
    H(\h98a0, \he39e, \h8dac, \h0fcf), H(\hd307, \h875f, \hfd78, \h3c9b),
    H(\h52ee, \hdea1, \h5d51, \h13c1), H(\hdd05, \h7218, \h5641, \hc6cd),
    H(\hf16b, \hca8e, \h9ac4, \h5377), H(\he860, \h8627, \hf867, \h06ee)>>

\* check_test_vectors on one vector: the lanes of the output equal
\* from_canonical_u64 of the expected lanes.
OutputIs(output, expected_output_) ==
  \A i \in 1..12 : FEq(output[i], from_canonical_u64(expected_output_[i]))

\* C17: poseidon of the all-zero state of 12 lanes returns exactly
\* [0x40e4c449028440b0, 0x8d5233d4e1ff2fa3, .., 0xe8608627f86706ee], and
\* poseidon of each input of test_vectors, the all-zero state, [0..12],
\* twelve copies of -1 and the random state, returns the expected output the
\* test gives for it.
C17_TestVectors ==
  pc = "done" =>
    /\ input = Lanes(LAMBDA i : ZERO) =>
         Lanes(LAMBDA i : to_canonical_u64(state[i + 1])) = ZeroStateOutput
    /\ \A n \in 1..Len(test_vectors12) :
         input = Lanes(LAMBDA i : from_canonical_u64(test_vectors12[n][1][i + 1]))
           => OutputIs(state, test_vectors12[n][2])

\* poseidon has returned for the all-zero state, the first of the four
\* inputs of the test.
C17_Witness ==
  /\ pc = "done"
  /\ Len(test_vectors12) = 4
  /\ input = Lanes(LAMBDA i : ZERO)
  /\ input = test_vectors12[1][1]
  /\ state = ZeroStateOutput

\* One pass of partial rounds that keep the round counter: the row r of the
\* table is added to the 12 lanes, the s-box is applied to lane 0, then the
\* fast partial layer.
PerIterationRound(state_, r) ==
  Let1(constant_layer(state_, r), LAMBDA st :
    mds_partial_layer_fast([st EXCEPT ![1] = sbox_monomial(st[1])]))

\* C18: partial_rounds, which reads FAST_PARTIAL_ROUND_CONSTANTS[i], leaves
\* the round counter untouched during its 22 passes and adds 22 to it once
\* afterwards, does what a version does that in pass i adds the row
\* ALL_ROUND_CONSTANTS[round * WIDTH + lane] of round 4 + i and increments
\* the counter: FAST_PARTIAL_ROUND_CONSTANTS[i] = ALL_ROUND_CONSTANTS[(4 + i)
\* * 12] for i in 0..22, lanes 1..11 of the rows 4..25 are zero, and the
\* second full rounds read the rows 26..29, every index below 360.
C18_PartialRoundsPerIteration ==
  /\ [](/\ Len(FAST_PARTIAL_ROUND_CONSTANTS) = 22
        /\ Len(ALL_ROUND_CONSTANTS) = 360
        /\ \A i \in 0..21 :
             /\ FAST_PARTIAL_ROUND_CONSTANTS[i + 1]
                  = ALL_ROUND_CONSTANTS[(4 + i) * 12 + 1]
             /\ \A lane \in 1..11 :
                  ALL_ROUND_CONSTANTS[(4 + i) * 12 + lane + 1] = U64(0)
        /\ pc = "partial_rounds" => round_ctr = 4
        /\ (pc = "full_rounds_2" /\ loop_i < HALF_N_FULL_ROUNDS) =>
             /\ round_ctr = 26 + loop_i
             /\ \A lane \in 0..11 : lane + WIDTH * round_ctr < 360)
  /\ [][/\ (pc = "partial_rounds" /\ loop_i < N_PARTIAL_ROUNDS) =>
             /\ state' = PerIterationRound(state, 4 + loop_i)
             /\ loop_i' = loop_i + 1
        /\ (pc = "partial_rounds" /\ loop_i = N_PARTIAL_ROUNDS) =>
             /\ round_ctr' = 4 + loop_i
             /\ state' = state]_vars

\* The second full rounds are at their last pass, which reads row 29 of the
\* table, after the 22 passes of partial_rounds.
C18_Witness ==
  /\ pc = "full_rounds_2"
  /\ loop_i = 3
  /\ round_ctr = 29
  /\ Len(steps) = 30
  /\ steps[27] = "partial"

---------------------------------------------------------------------------
(* The two branches of mds_layer_circuit.                                  *)

\* C19: mds_layer_circuit adds exactly one PoseidonMdsGate row, connects
\* lane i of the state to the input block i of that row for the 12 lanes
\* and returns the 12 output blocks of that row if and only if
\* num_routed_wires >= 2 * D * SPONGE_WIDTH, equality included; otherwise it
\* adds no gate and returns targets made by add and multiply-add operations
\* on constants and the state.  Both branches return 12 targets: neither is
\* an error.
C19_GateIffEnoughRoutedWires ==
  out_targets # <<>> =>
    LET enough == builder.num_routed_wires >= 2 * cfg_D * SPONGE_WIDTH
        with_gate ==
          /\ builder.gates = <<"PoseidonMdsGate">>
          /\ builder.copies =
               Lanes(LAMBDA i :
                 <<Target("wire", i, 0), Target("range", 0, i * cfg_D)>>)
          /\ out_targets =
               Lanes(LAMBDA i : Target("range", 0, (12 + i) * cfg_D))
          /\ builder.nodes = <<>>
        without_gate ==
          /\ builder.gates = <<>>
          /\ builder.copies = <<>>
          /\ \A i \in 1..12 :
               /\ out_targets[i].k = "node"
               /\ OperationOf(builder, out_targets[i]) = "add"
          /\ \A n \in 1..Len(builder.nodes) :
               builder.nodes[n].op
                 \in {"add", "mul_add", "constant", "constant_extension"}
    IN  /\ Len(out_targets) = 12
        /\ enough <=> with_gate
        /\ ~enough <=> without_gate

\* mds_layer_circuit has returned the output blocks of the gate's row with
\* num_routed_wires equal to 2 * D * SPONGE_WIDTH, D = 2.
C19_Witness ==
  /\ cfg_D = 2
  /\ out_targets # <<>>
  /\ builder.num_routed_wires = 48
  /\ builder.num_routed_wires = 2 * cfg_D * SPONGE_WIDTH
  /\ Len(builder.gates) = 1

---------------------------------------------------------------------------
(* The u128 intermediates of the two base-field layers.                    *)

\* Every u128 value one pass of the first loop of mds_layer computes.
mds_layer_block_u128s(st, start_index) ==
  Let2(as_u128(to_noncanonical_u64(st[start_index + 1])),
       as_u128(to_noncanonical_u64(st[start_index + 2])), LAMBDA s0, s1 :
  Let2(as_u128(to_noncanonical_u64(st[start_index + 3])),
       as_u128(to_noncanonical_u64(st[start_index + 4])), LAMBDA s2, s3 :
  Let2(U128Add(s0, s1), U128Add(s2, s3), LAMBDA t0, t1 :
  Let2(U128Add(t1, U128MulSmall(2, s1)),
       U128Add(t0, U128MulSmall(2, s3)), LAMBDA t2, t3 :
  Let2(U128Add(t3, U128MulSmall(4, t1)),
       U128Add(t2, U128MulSmall(4, t0)), LAMBDA t4, t5 :
    {s0, s1, s2, s3, t0, t1, U128MulSmall(2, s1), U128MulSmall(2, s3),
     t2, t3, U128MulSmall(4, t1), U128MulSmall(4, t0), t4, t5,
     U128Add(t3, t5), U128Add(t2, t4)})))))

\* Every u128 value mds_layer computes: those of the three passes of the
\* first loop, the partial and full sums of `stored`, and the sums of the
\* third loop.
mds_layer_u128s(state_) ==
  Let1(state_, LAMBDA st :
  Let1(mds_layer_block(st, 0) \o mds_layer_block(st, 4)
         \o mds_layer_block(st, 8), LAMBDA result_u128 :
    UNION {mds_layer_block_u128s(st, 0), mds_layer_block_u128s(st, 4),
           mds_layer_block_u128s(st, 8),
           {U128Add(result_u128[i], result_u128[4 + i]) : i \in 1..4},
           {U128Add(U128Add(result_u128[i], result_u128[4 + i]),
                    result_u128[8 + i]) : i \in 1..4},
           Let1(mds_layer_u128(st), LAMBDA sums :
             {sums[i] : i \in 1..12})}))

\* The values `sum` takes in the first loop of mds_partial_layer_fast: the
\* sums of the lanes 0..0, 0..1, up to 0..n.
RECURSIVE mds_partial_sums_u128(_, _)
mds_partial_sums_u128(st, n) ==
  IF n = 0 THEN <<as_u128(to_noncanonical_u64(st[1]))>>
  ELSE Let1(mds_partial_sums_u128(st, n - 1), LAMBDA sums :
         Append(sums,
                U128Add(sums[n], as_u128(to_noncanonical_u64(st[n + 1])))))

\* a <= b for two u128.
LeqU128(a, b) ==
  \/ a = b
  \/ \E k \in 1..16 : a[k] < b[k] /\ \A j \in (k + 1)..16 : a[j] = b[j]

\* 64 * (2^64 - 1) = 0x3f_ffff_ffff_ffff_ffc0
SixtyFourMaxU64 ==
  <<192, 255, 255, 255, 255, 255, 255, 255, 63, 0, 0, 0, 0, 0, 0, 0>>

\* 12 * (2^64 - 1) = 0xb_ffff_ffff_ffff_fff4
TwelveMaxU64 ==
  <<244, 255, 255, 255, 255, 255, 255, 255, 11, 0, 0, 0, 0, 0, 0, 0>>

\* x < 2^96
BelowTwo96(x) == \A k \in 13..16 : x[k] = 0

\* (x as u64, (x >> 64) as u32) holds every bit of x.
SplitKeepsBits(x) == as_u64(x) \o shr64_as_u32(x) \o <<0, 0, 0, 0>> = x

\* C20: for a state of 12 lanes below 2^64, every u128 value mds_layer
\* computes is at most 64 * (2^64 - 1) and every value of the sum of the
\* lanes in mds_partial_layer_fast is at most 12 * (2^64 - 1); all stay
\* below 2^96, so no addition or product wraps, and the split of a sum into
\* (sum as u64, (sum >> 64) as u32) given to from_noncanonical_u96 drops no
\* bit.
C20_SumsBelowTwo96 ==
  lay_state # <<>> =>
    /\ \A i \in 1..12 : Len(lay_state[i]) = 8
    /\ Let1(mds_layer_u128s(lay_state), LAMBDA xs :
         \A x \in xs : LeqU128(x, SixtyFourMaxU64) /\ BelowTwo96(x))
    /\ Let1(mds_layer_u128(lay_state), LAMBDA sums :
         \A i \in 1..12 : SplitKeepsBits(sums[i]))
    /\ Let1(mds_partial_sums_u128(lay_state, 11), LAMBDA sums :
         /\ \A n \in 1..12 :
              LeqU128(sums[n], TwelveMaxU64) /\ BelowTwo96(sums[n])
         /\ sums[12] = mds_partial_sum_u128(lay_state)
         /\ SplitKeepsBits(sums[12]))

\* Both layers have been applied to the state of 12 lanes 2^64 - 1, where
\* the sums are the largest: 64 * (2^64 - 1) and 12 * (2^64 - 1).
C20_Witness ==
  /\ lay_state = Lanes(LAMBDA i : MAX_U64)
  /\ lay_mds # <<>>
  /\ lay_partial # <<>>
  /\ mds_layer_u128(lay_state)[1] = SixtyFourMaxU64
  /\ mds_partial_sum_u128(lay_state) = TwelveMaxU64

---------------------------------------------------------------------------
(* The gate's constraints on the rows the generators fill.                 *)

\* Every residual of eval_unfiltered is the zero of the extension.
AllExtZero(D, r) == \A n \in 1..Len(r) : r[n] = ExtZERO(D)

\* The generator of row g has run and its buffer is merged.
GeneratorDone(g) ==
  /\ run_count[g + 1] >= 1
  /\ out_buffers[g + 1] = <<>>
  /\ ~generator_panicked

\* C21: after the generator of row g has run, on whatever values the input
\* wires of the row were given, the gate's constraints hold on row g: each
\* of the SPONGE_WIDTH * D residuals, declared output minus computed output,
\* that eval_unfiltered_base_one returns on the row and that eval_unfiltered
\* returns on the row embedded in the extension is zero.
C21_GeneratorSatisfiesGate ==
  \A g \in GateRows :
    GeneratorDone(g) =>
      /\ Let1(eval_unfiltered_base_one(cfg_D, partition_witness[g + 1]),
              LAMBDA r : Len(r) = SPONGE_WIDTH * cfg_D /\ AllZero(r))
      /\ Let1(eval_unfiltered(cfg_D,
                              EmbedRow(cfg_D, partition_witness[g + 1])),
              LAMBDA r :
                Len(r) = SPONGE_WIDTH * cfg_D /\ AllExtZero(cfg_D, r))

\* The generators of both of two rows have run and their buffers are
\* merged: the outputs of both rows are assigned, with D = 2.
C21_Witness ==
  /\ cfg_D = 2
  /\ Len(partition_witness) = 2
  /\ GeneratorDone(0) /\ GeneratorDone(1)
  /\ OutputsSet(cfg_D, partition_witness[1])
  /\ OutputsSet(cfg_D, partition_witness[2])
  /\ partition_witness[1][1] = MAX_U64

===========================================================================
